---- MODULE Spec2Model ----
(***************************************************************************)
(* Ledger engine of the poker chip backend: accounts, the transaction log, *)
(* the idempotency guard, the request handlers (transfer, approveRequest,  *)
(* rejectRequest, reverseTransaction, dailyMint, recoverChips, banUser,    *)
(* unbanUser, verifyUser) and the bulk-transfer worker.                    *)
(*                                                                         *)
(* Amounts are whole numbers of a scaled unit; Number()/Decimal128 round   *)
(* trips are exact on them.  Every handler runs inside a MongoDB session:  *)
(* it reads from the snapshot taken at its first read, its writes fail     *)
(* with a write conflict when another transaction has written the same     *)
(* document since, and its effects appear atomically at commit.            *)
(***************************************************************************)
EXTENDS Integers, Sequences, FiniteSets, TLC

(* ------------------------------ bounds -------------------------------- *)
MaxLog == 3          \* longest transaction log explored
MaxRows == 2         \* most rows in one bulk job
MaxQueue == 1        \* most jobs waiting in the queue
MaxCents == 30       \* largest operand of the arithmetic, in hundredths
MaxBalance == 2      \* no further job is queued once a balance exceeds this

(* -------------------------- program constants ------------------------- *)
AmountCeiling == 2             \* 20 trillion chips, in units of 10 trillion
FIXED_DAILY_MINT_AMOUNT == 1   \* the default mint (10000 chips), modelled as the smallest amount
JobAttempts == 3               \* defaultJobOptions.attempts

Users == {"adm", "p1", "p2"}   \* the accounts of the store
Ghost == "ghost"               \* a well-formed id that names no account
NoUser == "null"               \* fromUserId absent / null
UserIds == Users \cup {Ghost}
NoKey == "undefined"           \* no idempotency key on the request
Keys == {"k1"}
Amounts == 0..(AmountCeiling + 1)
Procs == {"h1", "h2"}          \* concurrent request handlers
Worker == "w"                  \* the bulk-transfer worker (concurrency: 1)

VARIABLES
  users,      \* Account Store: id -> [role, balance, isBanned, isVerified]
  txlog,      \* Transaction Log: sequence of entries, _id = position
  idemCache,  \* Redis keys idempotency:<key>
  pc,         \* per handler: idle / handler / write / commit / respond
  req,        \* per handler: the request being served
  plan,       \* per handler: the writes its session has computed
  stale,      \* per handler: documents committed by others since its snapshot
  resp,       \* per handler: the answer about to be sent
  queue,      \* bulk-transfer queue: jobs waiting
  job,        \* the job the worker holds, with its attempt count
  wpc,        \* worker: idle / write / commit
  wplan,      \* worker: the writes of the job's session
  wstale,     \* worker: documents committed by others since its snapshot
  jobResult,  \* the last job's outcome
  balanceCache, \* Redis keys balance:<id>: the cached balance of the account
  reader,     \* a player's getBalance: its position, the player, the value read
  calc        \* one step of balance arithmetic: its operands, the operation, the result

vars == <<users, txlog, idemCache, pc, req, plan, stale, resp,
          queue, job, wpc, wplan, wstale, jobResult, balanceCache, reader, calc>>

(* ------------------------------ records ------------------------------- *)
Entry(f, t, a, ty, st, k, rev, orig, batch, rec, adm, rsn) ==
  [fromUserId |-> f, toUserId |-> t, amount |-> a, type |-> ty, status |-> st,
   idempotencyKey |-> k, isReversal |-> rev, reversedTransactionId |-> orig,
   batchId |-> batch, recoveryFromUserId |-> rec, adminId |-> adm, reason |-> rsn]

NoWrites == <<>>
NoReq == [op |-> "none", caller |-> NoUser, fromUserId |-> NoUser,
          toUserId |-> NoUser, amount |-> 0, type |-> "none", key |-> NoKey,
          txid |-> 0, reason |-> <<>>]
Plan(c, uw, tw, ins, ret) ==
  [code |-> c, uw |-> uw, tw |-> tw, ins |-> ins, ret |-> ret]
Reject(c) == Plan(c, NoWrites, NoWrites, <<>>, 0)
NoPlan == Reject(0)
NoResp == [code |-> 0, tx |-> 0]
NewTx == -1   \* plan.ret: "the entry this plan inserts"
NewBatch == -1   \* batchId of an entry still to be committed

(* ------------------------- numeric helpers ---------------------------- *)
\* toDecimal throws on NaN or a value <= 0
ToDecimalThrows(value) == value <= 0
\* variant: a comparison that never finds the first number the smaller
NeverLess(a, b) == 0
\* compareDecimal(a, b): signed difference of the two numbers
CompareDecimal(a, b) == a - b
\* transactionSchema.amount validator
AmountValid(a) == a > 0 /\ a <= AmountCeiling

Exists(db, u) == u \in DOMAIN db.users
Db == [users |-> users, log |-> txlog]
SetBalance(db, u, b) == [db.users[u] EXCEPT !.balance = b]
\* sender.save() then receiver.save(): the later save wins on one document
SaveBoth(s, sDoc, r, rDoc) == (r :> rDoc) @@ (s :> sDoc)

(* --------------------------- transfer --------------------------------- *)
PlanTransferRequest(db, r) ==
  IF ~Exists(db, r.toUserId) THEN Reject(404)
  ELSE IF r.caller = r.toUserId THEN Reject(400)
  ELSE IF ToDecimalThrows(r.amount) \/ ~AmountValid(r.amount) THEN Reject(500)
  ELSE Plan(200, NoWrites, NoWrites,
            <<Entry(r.caller, r.toUserId, r.amount, "request", "pending", r.key,
                    FALSE, 0, 0, NoUser, NoUser, r.reason)>>, NewTx)

\* variant: a manual transfer that accepts the sender as its own receiver
ManualToSelfAllowed(db, r) ==
  IF ~Exists(db, r.toUserId) THEN Reject(404)
  ELSE IF r.fromUserId # NoUser /\ ~Exists(db, r.fromUserId) THEN Reject(404)
  ELSE IF ToDecimalThrows(r.amount) \/ ~AmountValid(r.amount) THEN Reject(500)
  ELSE IF r.fromUserId = NoUser THEN
    Plan(200,
         r.toUserId :> SetBalance(db, r.toUserId, db.users[r.toUserId].balance + r.amount),
         NoWrites,
         <<Entry(NoUser, r.toUserId, r.amount, "manual", "approved", r.key,
                 FALSE, 0, 0, NoUser, r.caller, r.reason)>>, NewTx)
  ELSE IF CompareDecimal(db.users[r.fromUserId].balance, r.amount) < 0 THEN Reject(400)
  ELSE Plan(200,
            SaveBoth(r.fromUserId,
                     SetBalance(db, r.fromUserId, db.users[r.fromUserId].balance - r.amount),
                     r.toUserId,
                     SetBalance(db, r.toUserId, db.users[r.toUserId].balance + r.amount)),
            NoWrites,
            <<Entry(r.fromUserId, r.toUserId, r.amount, "manual", "approved", r.key,
                    FALSE, 0, 0, NoUser, r.caller, r.reason)>>, NewTx)

PlanTransferManual(db, r) ==
  IF ~Exists(db, r.toUserId) THEN Reject(404)
  ELSE IF r.fromUserId # NoUser THEN
    IF ~Exists(db, r.fromUserId) THEN Reject(404)
    ELSE IF r.fromUserId = r.toUserId THEN Reject(400)
    ELSE IF ToDecimalThrows(r.amount) THEN Reject(500)
    ELSE IF CompareDecimal(db.users[r.fromUserId].balance, r.amount) < 0 THEN Reject(400)
    ELSE IF ~AmountValid(r.amount) THEN Reject(500)
    ELSE Plan(200,
              SaveBoth(r.fromUserId,
                       SetBalance(db, r.fromUserId, db.users[r.fromUserId].balance - r.amount),
                       r.toUserId,
                       SetBalance(db, r.toUserId, db.users[r.toUserId].balance + r.amount)),
              NoWrites,
              <<Entry(r.fromUserId, r.toUserId, r.amount, "manual", "approved", r.key,
                      FALSE, 0, 0, NoUser, r.caller, r.reason)>>, NewTx)
  ELSE
    IF ToDecimalThrows(r.amount) \/ ~AmountValid(r.amount) THEN Reject(500)
    ELSE Plan(200,
              r.toUserId :> SetBalance(db, r.toUserId, db.users[r.toUserId].balance + r.amount),
              NoWrites,
              <<Entry(NoUser, r.toUserId, r.amount, "manual", "approved", r.key,
                      FALSE, 0, 0, NoUser, r.caller, r.reason)>>, NewTx)

\* variant: a transfer that does not look at the caller's role
TransferAnyRole(db, r) ==
  IF r.type = "request" THEN PlanTransferRequest(db, r) ELSE PlanTransferManual(db, r)

PlanTransfer(db, r) ==
  LET role == db.users[r.caller].role IN
  IF role = "Player" /\ r.type # "request" THEN Reject(403)
  ELSE IF role = "Admin" /\ r.type # "manual" THEN Reject(400)
  ELSE IF r.type = "request" THEN PlanTransferRequest(db, r)
  ELSE PlanTransferManual(db, r)

(* ------------------------ approveRequest ------------------------------ *)
FindTx(db, id) == id \in 1..Len(db.log)

\* variant: an approval that does not look at the sender's balance
ApproveUnchecked(db, r) ==
  IF ~FindTx(db, r.txid) THEN Reject(404)
  ELSE LET tx == db.log[r.txid] IN
    IF tx.type # "request" \/ tx.status # "pending" THEN Reject(400)
    ELSE Plan(200,
              SaveBoth(tx.fromUserId,
                       SetBalance(db, tx.fromUserId, db.users[tx.fromUserId].balance - tx.amount),
                       tx.toUserId,
                       SetBalance(db, tx.toUserId, db.users[tx.toUserId].balance + tx.amount)),
              r.txid :> [tx EXCEPT !.status = "approved", !.adminId = r.caller],
              <<>>, r.txid)

\* variant: an approval that leaves the entry without the acting admin
ApproveUnstamped(db, r) ==
  IF ~FindTx(db, r.txid) THEN Reject(404)
  ELSE LET tx == db.log[r.txid] IN
    IF tx.type # "request" \/ tx.status # "pending" THEN Reject(400)
    ELSE IF CompareDecimal(db.users[tx.fromUserId].balance, tx.amount) < 0 THEN Reject(400)
    ELSE Plan(200,
              SaveBoth(tx.fromUserId,
                       SetBalance(db, tx.fromUserId, db.users[tx.fromUserId].balance - tx.amount),
                       tx.toUserId,
                       SetBalance(db, tx.toUserId, db.users[tx.toUserId].balance + tx.amount)),
              r.txid :> [tx EXCEPT !.status = "approved"],
              <<>>, r.txid)

PlanApprove(db, r) ==
  IF ~FindTx(db, r.txid) THEN Reject(404)
  ELSE LET tx == db.log[r.txid] IN
    IF tx.type # "request" THEN Reject(400)
    ELSE IF tx.status # "pending" THEN Reject(400)
    ELSE IF tx.fromUserId = NoUser \/ tx.toUserId = NoUser THEN Reject(400)
    ELSE IF ~Exists(db, tx.fromUserId) \/ ~Exists(db, tx.toUserId) THEN Reject(404)
    ELSE IF CompareDecimal(db.users[tx.fromUserId].balance, tx.amount) < 0 THEN Reject(400)
    ELSE Plan(200,
              SaveBoth(tx.fromUserId,
                       SetBalance(db, tx.fromUserId, db.users[tx.fromUserId].balance - tx.amount),
                       tx.toUserId,
                       SetBalance(db, tx.toUserId, db.users[tx.toUserId].balance + tx.amount)),
              r.txid :> [tx EXCEPT !.status = "approved", !.adminId = r.caller],
              <<>>, r.txid)

(* ------------------------- rejectRequest ------------------------------ *)
\* variant: a reject that does not look at the entry's status
RejectAnyStatus(db, r) ==
  IF r.txid \in 1..Len(db.log)
  THEN Plan(200, NoWrites, r.txid :> [db.log[r.txid] EXCEPT !.status = "failed"], <<>>, r.txid)
  ELSE Reject(404)

RejectReason(old, given) ==
  IF given = <<>> THEN old
  ELSE (IF old # <<>> THEN old \o <<" | ">> ELSE <<>>) \o <<"Rejected: ">> \o given

\* variant: a rejection whose reason replaces the reason of the request
RejectOverwritesReason(db, r) ==
  IF ~FindTx(db, r.txid) THEN Reject(404)
  ELSE LET tx == db.log[r.txid] IN
    IF tx.type # "request" \/ tx.status # "pending" THEN Reject(400)
    ELSE Plan(200, NoWrites,
              r.txid :> [tx EXCEPT !.status = "failed", !.adminId = r.caller,
                                   !.reason = IF r.reason = <<>> THEN @
                                              ELSE <<"Rejected: ">> \o r.reason],
              <<>>, r.txid)

PlanReject(db, r) ==
  IF ~FindTx(db, r.txid) THEN Reject(404)
  ELSE LET tx == db.log[r.txid] IN
    IF tx.type # "request" THEN Reject(400)
    ELSE IF tx.status # "pending" THEN Reject(400)
    ELSE Plan(200, NoWrites,
              r.txid :> [tx EXCEPT !.status = "failed", !.adminId = r.caller,
                                   !.reason = RejectReason(tx.reason, r.reason)],
              <<>>, r.txid)

(* ----------------------- reverseTransaction --------------------------- *)
\* variant: a reversal that debits the receiver and credits nobody
ReverseWithoutCredit(db, r) ==
  IF r.txid \in 1..Len(db.log)
     /\ db.log[r.txid].status = "approved" /\ db.log[r.txid].type = "manual"
     /\ db.log[r.txid].fromUserId # NoUser
     /\ db.users[db.log[r.txid].toUserId].balance >= db.log[r.txid].amount
  THEN LET tx == db.log[r.txid] IN
       Plan(200,
            tx.toUserId :> SetBalance(db, tx.toUserId,
                                      db.users[tx.toUserId].balance - tx.amount),
            r.txid :> [tx EXCEPT !.status = "reversed"],
            <<Entry(tx.toUserId, tx.fromUserId, tx.amount, "reversal", "approved", NoKey,
                    TRUE, r.txid, 0, NoUser, r.caller, r.reason)>>, NewTx)
  ELSE Reject(400)

\* variant: a reversal that does not look at the receiver's balance
ReverseUnchecked(db, r) ==
  IF ~FindTx(db, r.txid) THEN Reject(404)
  ELSE LET tx == db.log[r.txid] IN
    IF tx.status # "approved" \/ tx.type = "reversal" THEN Reject(400)
    ELSE IF tx.fromUserId = NoUser \/ tx.toUserId = NoUser THEN Reject(400)
    ELSE Plan(200,
              SaveBoth(tx.toUserId,
                       SetBalance(db, tx.toUserId, db.users[tx.toUserId].balance - tx.amount),
                       tx.fromUserId,
                       SetBalance(db, tx.fromUserId, db.users[tx.fromUserId].balance + tx.amount)),
              r.txid :> [tx EXCEPT !.status = "reversed"],
              <<Entry(tx.toUserId, tx.fromUserId, tx.amount, "reversal", "approved", NoKey,
                      TRUE, r.txid, 0, NoUser, r.caller, r.reason)>>, NewTx)

\* variant: a reversal that takes a minted amount back from its receiver
ReverseMinted(db, r) ==
  IF ~FindTx(db, r.txid) THEN Reject(404)
  ELSE LET tx == db.log[r.txid] IN
    IF tx.status # "approved" \/ tx.type = "reversal" THEN Reject(400)
    ELSE IF CompareDecimal(db.users[tx.toUserId].balance, tx.amount) < 0 THEN Reject(400)
    ELSE Plan(200,
              tx.toUserId :> SetBalance(db, tx.toUserId,
                                        db.users[tx.toUserId].balance - tx.amount),
              r.txid :> [tx EXCEPT !.status = "reversed"],
              <<Entry(tx.toUserId, tx.fromUserId, tx.amount, "reversal", "approved", NoKey,
                      TRUE, r.txid, 0, NoUser, r.caller, r.reason)>>, NewTx)

PlanReverse(db, r) ==
  IF ~FindTx(db, r.txid) THEN Reject(404)
  ELSE LET tx == db.log[r.txid] IN
    IF tx.status = "reversed" THEN Reject(400)
    ELSE IF tx.type = "reversal" THEN Reject(400)
    ELSE IF tx.status # "approved" THEN Reject(400)
    ELSE IF tx.fromUserId = NoUser \/ tx.toUserId = NoUser THEN Reject(400)
    ELSE IF ~Exists(db, tx.toUserId) \/ ~Exists(db, tx.fromUserId) THEN Reject(404)
    ELSE IF CompareDecimal(db.users[tx.toUserId].balance, tx.amount) < 0 THEN Reject(400)
    ELSE Plan(200,
              SaveBoth(tx.toUserId,
                       SetBalance(db, tx.toUserId, db.users[tx.toUserId].balance - tx.amount),
                       tx.fromUserId,
                       SetBalance(db, tx.fromUserId, db.users[tx.fromUserId].balance + tx.amount)),
              r.txid :> [tx EXCEPT !.status = "reversed"],
              <<Entry(tx.toUserId, tx.fromUserId, tx.amount, "reversal", "approved", NoKey,
                      TRUE, r.txid, 0, NoUser, r.caller, r.reason)>>, NewTx)

(* --------------------------- dailyMint -------------------------------- *)
\* amountPerUser undefined (type "default") selects the fixed amount
MintAmount(r) == IF r.type = "default" THEN FIXED_DAILY_MINT_AMOUNT ELSE r.amount

RECURSIVE MintEntries(_, _, _)
MintEntries(us, amt, caller) ==
  IF us = {} THEN <<>>
  ELSE LET u == CHOOSE x \in us : TRUE IN
       <<Entry(NoUser, u, amt, "daily-mint", "approved", NoKey,
               FALSE, 0, NewBatch, NoUser, caller, <<>>)>> \o MintEntries(us \ {u}, amt, caller)

\* variant: a mint that credits the players and leaves the other accounts out
MintPlayersOnly(db, r) ==
  LET m == MintAmount(r)
      ps == {u \in DOMAIN db.users : db.users[u].role = "Player"} IN
  IF m <= 0 THEN Reject(400)
  ELSE IF ~AmountValid(m) THEN Reject(500)
  ELSE Plan(200, [u \in ps |-> SetBalance(db, u, db.users[u].balance + m)],
            NoWrites, MintEntries(ps, m, r.caller), 0)

PlanMint(db, r) ==
  LET m == MintAmount(r) IN
  IF m <= 0 THEN Reject(400)
  ELSE IF DOMAIN db.users = {} THEN Reject(404)
  ELSE IF ~AmountValid(m) THEN Reject(500)
  ELSE Plan(200,
            [u \in DOMAIN db.users |-> SetBalance(db, u, db.users[u].balance + m)],
            NoWrites, MintEntries(DOMAIN db.users, m, r.caller), 0)

(* -------------------------- recoverChips ------------------------------ *)
\* variant: a recovery that moves one unit instead of the whole balance
RecoverOneUnit(db, r) ==
  IF r.fromUserId \in DOMAIN db.users /\ r.toUserId \in DOMAIN db.users
     /\ r.fromUserId # r.toUserId
     /\ db.users[r.fromUserId].isBanned /\ db.users[r.toUserId].isVerified
     /\ db.users[r.fromUserId].balance > 0
  THEN Plan(200,
            (r.toUserId :> SetBalance(db, r.toUserId, db.users[r.toUserId].balance + 1))
              @@ (r.fromUserId :> SetBalance(db, r.fromUserId,
                                             db.users[r.fromUserId].balance - 1)),
            NoWrites,
            <<Entry(r.fromUserId, r.toUserId, 1, "chip-recovery", "approved", r.key,
                    FALSE, 0, 0, r.fromUserId, r.caller, r.reason)>>, NewTx)
  ELSE Reject(400)
\* variant: a recovery that does not ask whether the source is banned
RecoverFromAnyone(db, r) ==
  IF r.fromUserId \in DOMAIN db.users /\ r.toUserId \in DOMAIN db.users
     /\ r.fromUserId # r.toUserId
     /\ db.users[r.toUserId].isVerified
     /\ db.users[r.fromUserId].balance > 0
     /\ db.users[r.fromUserId].balance <= AmountCeiling
  THEN Plan(200,
            (r.toUserId :> SetBalance(db, r.toUserId, db.users[r.toUserId].balance
                                                       + db.users[r.fromUserId].balance))
              @@ (r.fromUserId :> SetBalance(db, r.fromUserId, 0)),
            NoWrites,
            <<Entry(r.fromUserId, r.toUserId, db.users[r.fromUserId].balance,
                    "chip-recovery", "approved", r.key,
                    FALSE, 0, 0, r.fromUserId, r.caller, r.reason)>>, NewTx)
  ELSE Reject(400)

DefaultRecoveryReason == <<"Chip recovery from banned account">>

PlanRecover(db, r) ==
  LET b == r.fromUserId
      v == r.toUserId IN
  IF b = NoUser \/ v = NoUser THEN Reject(400)
  ELSE IF b = v THEN Reject(400)
  ELSE IF ~Exists(db, b) \/ ~Exists(db, v) THEN Reject(404)
  ELSE IF ~db.users[b].isBanned THEN Reject(400)
  ELSE IF ~db.users[v].isVerified THEN Reject(400)
  ELSE IF db.users[b].balance <= 0 THEN Reject(400)
  ELSE IF ~AmountValid(db.users[b].balance) THEN Reject(500)
  ELSE Plan(200,
            SaveBoth(b, SetBalance(db, b, 0),
                     v, SetBalance(db, v, db.users[v].balance + db.users[b].balance)),
            NoWrites,
            <<Entry(b, v, db.users[b].balance, "chip-recovery", "approved", r.key,
                    FALSE, 0, 0, b, r.caller,
                    IF r.reason # <<>> THEN r.reason ELSE DefaultRecoveryReason)>>, NewTx)

(* --------------------- banUser / unbanUser / verifyUser --------------- *)
\* reason.trim().length === 0 : a blank reason is the sequence <<" ">>
BlankReason(rsn) == rsn = <<>> \/ rsn = <<" ">>

\* variant: a ban that does not look at the reason
BanWithoutReason(db, r) ==
  IF r.toUserId = NoUser THEN Reject(400)
  ELSE IF ~Exists(db, r.toUserId) THEN Reject(404)
  ELSE IF db.users[r.toUserId].role = "Admin" THEN Reject(403)
  ELSE IF db.users[r.toUserId].isBanned THEN Reject(400)
  ELSE Plan(200, r.toUserId :> [db.users[r.toUserId] EXCEPT !.isBanned = TRUE],
            NoWrites, <<>>, 0)

\* variant: a ban that does not look at the role
BanAnyRole(db, r) ==
  IF r.toUserId = NoUser THEN Reject(400)
  ELSE IF BlankReason(r.reason) THEN Reject(400)
  ELSE IF ~Exists(db, r.toUserId) THEN Reject(404)
  ELSE IF db.users[r.toUserId].isBanned THEN Reject(400)
  ELSE Plan(200, r.toUserId :> [db.users[r.toUserId] EXCEPT !.isBanned = TRUE],
            NoWrites, <<>>, 0)

PlanBan(db, r) ==
  IF r.toUserId = NoUser THEN Reject(400)
  ELSE IF BlankReason(r.reason) THEN Reject(400)
  ELSE IF ~Exists(db, r.toUserId) THEN Reject(404)
  ELSE IF db.users[r.toUserId].role = "Admin" THEN Reject(403)
  ELSE IF db.users[r.toUserId].isBanned THEN Reject(400)
  ELSE Plan(200, r.toUserId :> [db.users[r.toUserId] EXCEPT !.isBanned = TRUE],
            NoWrites, <<>>, 0)

PlanUnban(db, r) ==
  IF r.toUserId = NoUser THEN Reject(400)
  ELSE IF ~Exists(db, r.toUserId) THEN Reject(404)
  ELSE IF ~db.users[r.toUserId].isBanned THEN Reject(400)
  ELSE Plan(200, r.toUserId :> [db.users[r.toUserId] EXCEPT !.isBanned = FALSE],
            NoWrites, <<>>, 0)

PlanVerify(db, r) ==
  IF r.toUserId = NoUser THEN Reject(400)
  ELSE IF ~Exists(db, r.toUserId) THEN Reject(404)
  ELSE IF db.users[r.toUserId].isVerified THEN Reject(400)
  ELSE Plan(200, r.toUserId :> [db.users[r.toUserId] EXCEPT !.isVerified = TRUE],
            NoWrites, <<>>, 0)

\* variant: an update entry point that goes through
UpdateApplied(db, r) ==
  IF r.txid \in 1..Len(db.log)
  THEN Plan(200, NoWrites,
            r.txid :> [db.log[r.txid] EXCEPT !.amount = db.log[r.txid].amount + 1],
            <<>>, r.txid)
  ELSE Reject(404)
\* transactionSchema.pre(updateOne, findOneAndUpdate, ...) and
\* transactionSchema.pre(deleteOne, findOneAndDelete, ...): the hook throws
PlanUpdateTx(db, r) == Reject(500)
PlanDeleteTx(db, r) == Reject(500)

PlanOf(db, r) ==
  CASE r.op = "transfer" -> PlanTransfer(db, r)
    [] r.op = "approve" -> PlanApprove(db, r)
    [] r.op = "reject" -> PlanReject(db, r)
    [] r.op = "reverse" -> PlanReverse(db, r)
    [] r.op = "mint" -> PlanMint(db, r)
    [] r.op = "recover" -> PlanRecover(db, r)
    [] r.op = "ban" -> PlanBan(db, r)
    [] r.op = "unban" -> PlanUnban(db, r)
    [] r.op = "verify" -> PlanVerify(db, r)
    [] r.op = "updateTx" -> PlanUpdateTx(db, r)
    [] r.op = "deleteTx" -> PlanDeleteTx(db, r)

(* ------------------------- bulk-transfer worker ----------------------- *)
\* one row of the job against the session's view w of the accounts;
\* ok: the row reached results; wrote: the accounts it saved
BulkRow(w, row, adm) ==
  LET f == row.fromUserId
      t == row.toUserId
      a == row.amount
      entry == Entry(f, t, a, "manual", "approved", NoKey, FALSE, 0, NewBatch,
                     NoUser, adm, <<>>)
  IN
  IF f # NoUser THEN
    IF f \notin DOMAIN w \/ t \notin DOMAIN w THEN
      [users |-> w, wrote |-> {}, ins |-> <<>>, ok |-> FALSE]
    ELSE IF CompareDecimal(w[f].balance, a) < 0 THEN
      [users |-> w, wrote |-> {}, ins |-> <<>>, ok |-> FALSE]
    ELSE
      LET w2 == SaveBoth(f, [w[f] EXCEPT !.balance = w[f].balance - a],
                         t, [w[t] EXCEPT !.balance = w[t].balance + a]) @@ w
      IN [users |-> w2, wrote |-> {f, t},
          ins |-> IF AmountValid(a) THEN <<entry>> ELSE <<>>,
          ok |-> AmountValid(a)]
  ELSE
    IF t \notin DOMAIN w THEN
      [users |-> w, wrote |-> {}, ins |-> <<>>, ok |-> FALSE]
    ELSE
      LET w2 == (t :> [w[t] EXCEPT !.balance = w[t].balance + a]) @@ w
      IN [users |-> w2, wrote |-> {t},
          ins |-> IF AmountValid(a) THEN <<entry>> ELSE <<>>,
          ok |-> AmountValid(a)]

\* the for-loop over job.data.transfers, rows i..Len(rows)
RECURSIVE BulkLoop(_, _, _, _)
BulkLoop(acc, rows, i, adm) ==
  IF i > Len(rows) THEN acc
  ELSE LET one == BulkRow(acc.users, rows[i], adm) IN
       BulkLoop([users |-> one.users,
                 wrote |-> acc.wrote \cup one.wrote,
                 ins |-> acc.ins \o one.ins,
                 success |-> acc.success + (IF one.ok THEN 1 ELSE 0),
                 errors |-> acc.errors \o (IF one.ok THEN <<>> ELSE <<rows[i]>>)],
                rows, i + 1, adm)

\* variant: a job that applies nothing as soon as one row fails
BulkAllOrNothing(db, rows, adm) ==
  LET out == BulkLoop([users |-> db.users, wrote |-> {}, ins |-> <<>>,
                       success |-> 0, errors |-> <<>>], rows, 1, adm)
  IN IF out.errors # <<>>
     THEN [uw |-> NoWrites, ins |-> <<>>, success |-> 0, errors |-> rows]
     ELSE [uw |-> [u \in out.wrote |-> out.users[u]], ins |-> out.ins,
           success |-> out.success, errors |-> <<>>]

PlanBulk(db, rows, adm) ==
  LET out == BulkLoop([users |-> db.users, wrote |-> {}, ins |-> <<>>,
                       success |-> 0, errors |-> <<>>], rows, 1, adm)
  IN [uw |-> [u \in out.wrote |-> out.users[u]], ins |-> out.ins,
      success |-> out.success, errors |-> out.errors]

NoBulkPlan == [uw |-> NoWrites, ins |-> <<>>, success |-> 0, errors |-> <<>>]
NoJob == [rows |-> <<>>, attemptsMade |-> 0, batchId |-> 0]
\* the job's return value { success, failed, errors }
Result(status, success, errors) ==
  [status |-> status, success |-> success, failed |-> Len(errors), errors |-> errors]
NoResult == Result("none", 0, <<>>)

(* ============================ the machine ============================= *)
UserDoc(role) == [role |-> role, balance |-> 0, isBanned |-> FALSE, isVerified |-> FALSE]
NoStale == [u |-> {}, t |-> {}]

\* redis.get returns null: no entry under balance:<id>
NotCached == -1
NoReader == [pc |-> "idle", user |-> NoUser, val |-> 0]
NoCalc == [b |-> 0, a |-> 0, op |-> "none", out |-> 0]

Init ==
  /\ users = [u \in Users |-> UserDoc(IF u = "adm" THEN "Admin" ELSE "Player")]
  /\ txlog = <<>>
  /\ idemCache = {}
  /\ pc = [p \in Procs |-> "idle"]
  /\ req = [p \in Procs |-> NoReq]
  /\ plan = [p \in Procs |-> NoPlan]
  /\ stale = [p \in Procs |-> NoStale]
  /\ resp = [p \in Procs |-> NoResp]
  /\ queue = <<>>
  /\ job = NoJob
  /\ wpc = "idle"
  /\ wplan = NoBulkPlan
  /\ wstale = NoStale
  /\ jobResult = NoResult
  /\ balanceCache = [u \in Users |-> NotCached]
  /\ reader = NoReader
  /\ calc = NoCalc

(* ------------------------------ inputs -------------------------------- *)
Req(op, caller, f, t, a, ty, k, id, rsn) ==
  [op |-> op, caller |-> caller, fromUserId |-> f, toUserId |-> t, amount |-> a,
   type |-> ty, key |-> k, txid |-> id, reason |-> rsn]

Admins == {u \in Users : u = "adm"}
Reasons == {<<>>, <<"r">>}
\* parties of transfers: the two players or an unknown id
Parties == (Users \ Admins) \cup {Ghost}

\* POST /transfer by an admin, type "manual"
ManualReqs(froms, tos, amts, keys) ==
  {Req("transfer", "adm", f, t, a, "manual", k, 0, <<>>) :
     f \in froms, t \in tos, a \in amts, k \in keys}
\* POST /transfer by a player, type "request"
PlayerReqs ==
  {Req("transfer", "p1", NoUser, t, a, "request", NoKey, 0, rsn) :
     t \in Parties, a \in Amounts, rsn \in Reasons}
\* a type the caller's role may not use
WrongTypeReqs ==
  {Req("transfer", "adm", NoUser, "p1", 1, "request", NoKey, 0, <<>>),
   Req("transfer", "p1", NoUser, "p2", 1, "manual", NoKey, 0, <<>>)}
TxReqs ==
  {Req(op, "adm", NoUser, NoUser, 0, "none", NoKey, id, <<>>) :
     op \in {"approve", "reject", "reverse"}, id \in 1..(MaxLog + 1)}
  \cup {Req("reject", "adm", NoUser, NoUser, 0, "none", NoKey, id, <<"r">>) :
          id \in 1..MaxLog}
MintReqs ==
  {Req("mint", "adm", NoUser, NoUser, a, "given", NoKey, 0, <<>>) : a \in Amounts}
  \cup {Req("mint", "adm", NoUser, NoUser, 0, "default", NoKey, 0, <<>>)}
RecoverReqs ==
  {Req("recover", "adm", f, t, 0, "none", NoKey, 0, rsn) :
     f \in {NoUser} \cup Parties, t \in {NoUser} \cup Parties, rsn \in Reasons}
AccountReqs ==
  {Req("ban", "adm", NoUser, t, 0, "none", NoKey, 0, rsn) :
     t \in {NoUser} \cup UserIds, rsn \in {<<>>, <<" ">>, <<"r">>}}
  \cup {Req(op, "adm", NoUser, t, 0, "none", NoKey, 0, <<>>) :
          op \in {"unban", "verify"}, t \in {NoUser} \cup UserIds}
HookReqs ==
  {Req(op, "adm", NoUser, NoUser, 0, "none", NoKey, id, <<>>) :
     op \in {"updateTx", "deleteTx"}, id \in 1..MaxLog}

\* routes that run idempotencyCheck before the handler
Guarded == {"transfer", "recover"}

(* --------------------------- log capacity ----------------------------- *)
Need(op) == CASE op \in {"transfer", "reverse", "recover"} -> 1
              [] op = "mint" -> Cardinality(Users)
              [] OTHER -> 0
Held(p) == IF pc[p] = "handler" THEN Need(req[p].op)
           ELSE IF pc[p] \in {"write", "commit"} THEN Len(plan[p].ins)
           ELSE 0
RECURSIVE SumHeld(_)
SumHeld(ps) == IF ps = {} THEN 0
               ELSE LET p == CHOOSE x \in ps : TRUE IN Held(p) + SumHeld(ps \ {p})
RECURSIVE SumRows(_, _)
SumRows(q, i) == IF i > Len(q) THEN 0 ELSE Len(q[i].rows) + SumRows(q, i + 1)
\* sessions that save the same entry: the write conflict lets at most one of
\* them commit, so they hold one place in the log between them
InSession(p) == pc[p] \in {"write", "commit"}
Contend(p, q) ==
  /\ p # q /\ InSession(p) /\ InSession(q)
  /\ DOMAIN plan[p].tw \cap DOMAIN plan[q].tw # {}
HeldTwice ==
  IF \E p, q \in Procs : Contend(p, q)
  THEN LET x == CHOOSE y \in Procs \X Procs : Contend(y[1], y[2])
       IN IF Held(x[1]) < Held(x[2]) THEN Held(x[1]) ELSE Held(x[2])
  ELSE 0
JoinsHold(p, pl) ==
  \E q \in Procs \ {p} :
    /\ InSession(q) /\ DOMAIN plan[q].tw \cap DOMAIN pl.tw # {}
    /\ Len(pl.ins) <= Len(plan[q].ins)
Reserved == SumHeld(Procs) - HeldTwice + Len(job.rows) + SumRows(queue, 1)
HasRoom(n) == Len(txlog) + Reserved + n <= MaxLog

(* --------------------- sessions: conflicts and keys -------------------- *)
PcOf(x) == IF x = Worker THEN wpc ELSE pc[x]
PlannedU(x) == IF x = Worker THEN DOMAIN wplan.uw ELSE DOMAIN plan[x].uw
PlannedT(x) == IF x = Worker THEN {} ELSE DOMAIN plan[x].tw
KeysIn(entries) == {entries[i].idempotencyKey : i \in 1..Len(entries)} \ {NoKey}
PlannedKeys(x) == IF x = Worker THEN {} ELSE KeysIn(plan[x].ins)
StaleOf(x) == IF x = Worker THEN wstale ELSE stale[x]
\* sessions that have written and not yet committed
Writers(x) == {y \in (Procs \cup {Worker}) \ {x} : PcOf(y) = "commit"}
LockedU(x) == UNION {PlannedU(y) : y \in Writers(x)}
LockedT(x) == UNION {PlannedT(y) : y \in Writers(x)}
LockedKeys(x) == UNION {PlannedKeys(y) : y \in Writers(x)}

\* variant: saves that never meet a write conflict (as if made outside a session)
SaveOutsideSession(x) == FALSE
\* a save() inside the session fails when another transaction wrote the document
WriteConflict(x) ==
  \/ PlannedU(x) \cap (StaleOf(x).u \cup LockedU(x)) # {}
  \/ PlannedT(x) \cap (StaleOf(x).t \cup LockedT(x)) # {}
\* index { idempotencyKey: 1 } unique, sparse
DuplicateKey(x) == PlannedKeys(x) \cap (KeysIn(txlog) \cup LockedKeys(x)) # {}

Stamp(ins, b) ==
  [i \in 1..Len(ins) |->
     IF ins[i].batchId = NewBatch THEN [ins[i] EXCEPT !.batchId = b] ELSE ins[i]]
\* the log after a commit: documents saved in place, then the inserts
CommitLog(log, tw, ins) ==
  [i \in 1..Len(log) |-> IF i \in DOMAIN tw THEN tw[i] ELSE log[i]]
    \o Stamp(ins, Len(log) + 1)
\* sessions whose snapshot is older than a commit of documents us / ts
Outdated(st, x, us, ts) ==
  IF PcOf(x) = "write" THEN [u |-> st.u \cup us, t |-> st.t \cup ts] ELSE st

(* --------------------------- idempotencyCheck ------------------------- *)
\* checkIdempotency(key): redis.exists, false when Redis is not ready
CheckIdempotency(key, avail) == avail /\ key \in idemCache
\* setIdempotency(key): redis.setex, nothing when Redis is not ready
SetIdempotency(key, avail) == IF avail THEN idemCache \cup {key} ELSE idemCache
\* variant: a lookup that ignores the key
FindAnyEntry(key) == 1..Len(txlog)
\* variant: a lookup that finds no entry
FindNothing(key) == {}
\* Transaction.findOne({ idempotencyKey })
FindByKey(key) == {i \in 1..Len(txlog) : txlog[i].idempotencyKey = key}

Answer(code, tx) == [code |-> code, tx |-> tx]
\* the handler (or the guard) has its answer to request r; Finish sends it
Respond(p, r, code, tx) ==
  /\ resp' = [resp EXCEPT ![p] = Answer(code, tx)]
  /\ pc' = [pc EXCEPT ![p] = "respond"]
  /\ req' = [req EXCEPT ![p] = r]
  /\ plan' = [plan EXCEPT ![p] = NoPlan]
  /\ stale' = [stale EXCEPT ![p] = NoStale]

WorkerVars == <<queue, job, wpc, wplan, wstale, jobResult>>

\* existsInCache: 409 "Request already processed"
GuardConflict(p, r) ==
  /\ pc[p] = "idle" /\ r.op \in Guarded /\ r.key # NoKey
  /\ CheckIdempotency(r.key, TRUE)
  /\ Respond(p, r, 409, 0)
  /\ UNCHANGED <<users, txlog, idemCache, WorkerVars, balanceCache, reader, calc>>

\* existingTx: 200 "Transaction already exists" with the stored entry
GuardReplay(p, r) ==
  /\ pc[p] = "idle" /\ r.op \in Guarded /\ r.key # NoKey
  /\ \E avail \in BOOLEAN, again \in BOOLEAN :
       /\ ~CheckIdempotency(r.key, avail)
       /\ FindByKey(r.key) # {}
       /\ idemCache' = SetIdempotency(r.key, again)
       /\ Respond(p, r, 200, CHOOSE i \in FindByKey(r.key) : TRUE)
  /\ UNCHANGED <<users, txlog, WorkerVars, balanceCache, reader, calc>>

\* neither cache nor log knows the key: req.idempotencyKey = key; next()
GuardPass(p, r) ==
  /\ pc[p] = "idle" /\ r.op \in Guarded /\ r.key # NoKey
  /\ HasRoom(Need(r.op))
  /\ \E avail \in BOOLEAN : ~CheckIdempotency(r.key, avail)
  /\ FindByKey(r.key) = {}
  /\ pc' = [pc EXCEPT ![p] = "handler"]
  /\ req' = [req EXCEPT ![p] = r]
  /\ resp' = [resp EXCEPT ![p] = NoResp]
  /\ UNCHANGED <<users, txlog, idemCache, plan, stale, WorkerVars, balanceCache, reader, calc>>

\* the lookup throws: catch { next() } with req.idempotencyKey never set
GuardError(p, r) ==
  /\ pc[p] = "idle" /\ r.op \in Guarded /\ r.key # NoKey
  /\ HasRoom(Need(r.op))
  /\ \E avail \in BOOLEAN : ~CheckIdempotency(r.key, avail)
  /\ pc' = [pc EXCEPT ![p] = "handler"]
  /\ req' = [req EXCEPT ![p] = [r EXCEPT !.key = NoKey]]
  /\ resp' = [resp EXCEPT ![p] = NoResp]
  /\ UNCHANGED <<users, txlog, idemCache, plan, stale, WorkerVars, balanceCache, reader, calc>>

(* ------------------------------ handlers ------------------------------ *)
\* startTransaction, the reads and checks of the handler, its writes planned
StartHandler(p, r, reserved) ==
  LET pl == PlanOf(Db, r) IN
  IF pl.code # 200
  THEN Respond(p, r, pl.code, 0)
  ELSE /\ reserved \/ HasRoom(Len(pl.ins)) \/ JoinsHold(p, pl)
       /\ pc' = [pc EXCEPT ![p] = "write"]
       /\ req' = [req EXCEPT ![p] = r]
       /\ plan' = [plan EXCEPT ![p] = pl]
       /\ stale' = [stale EXCEPT ![p] = NoStale]
       /\ resp' = [resp EXCEPT ![p] = NoResp]

\* a request without idempotency key, or on a route without the guard
Receive(p, r) ==
  /\ pc[p] = "idle"
  /\ r.op \notin Guarded \/ r.key = NoKey
  /\ StartHandler(p, r, FALSE)
  /\ UNCHANGED <<users, txlog, idemCache, WorkerVars, balanceCache, reader, calc>>

Begin(p) ==
  /\ pc[p] = "handler"
  /\ StartHandler(p, req[p], TRUE)
  /\ UNCHANGED <<users, txlog, idemCache, WorkerVars, balanceCache, reader, calc>>

\* variant: saves that are not undone when a later one fails
WritePartly(p) ==
  /\ pc[p] = "write"
  /\ IF WriteConflict(p) \/ DuplicateKey(p)
     THEN /\ Respond(p, req[p], 500, 0)
          /\ users' = [u \in DOMAIN plan[p].uw \ (StaleOf(p).u \cup LockedU(p))
                          |-> plan[p].uw[u]] @@ users
     ELSE /\ pc' = [pc EXCEPT ![p] = "commit"]
          /\ UNCHANGED <<users, req, plan, stale, resp>>
  /\ UNCHANGED <<txlog, idemCache, WorkerVars, balanceCache, reader, calc>>

\* the save()/create() calls of the handler inside its session
Write(p) ==
  /\ pc[p] = "write"
  /\ IF WriteConflict(p) \/ DuplicateKey(p)
     THEN Respond(p, req[p], 500, 0)
     ELSE /\ pc' = [pc EXCEPT ![p] = "commit"]
          /\ UNCHANGED <<req, plan, stale, resp>>
  /\ UNCHANGED <<users, txlog, idemCache, WorkerVars, balanceCache, reader, calc>>

\* variant: a commit whose handler then answers with an error
CommitThenFail(p) ==
  /\ pc[p] = "commit"
  /\ users' = plan[p].uw @@ users
  /\ txlog' = CommitLog(txlog, plan[p].tw, plan[p].ins)
  /\ stale' = [q \in Procs |->
                 IF q = p THEN NoStale
                 ELSE Outdated(stale[q], q, DOMAIN plan[p].uw, DOMAIN plan[p].tw)]
  /\ wstale' = Outdated(wstale, Worker, DOMAIN plan[p].uw, DOMAIN plan[p].tw)
  /\ resp' = [resp EXCEPT ![p] = Answer(500, 0)]
  /\ pc' = [pc EXCEPT ![p] = "respond"]
  /\ UNCHANGED <<idemCache, req, plan, queue, job, wpc, wplan, jobResult, balanceCache, reader, calc>>

\* session.commitTransaction()
Commit(p) ==
  /\ pc[p] = "commit"
  /\ users' = plan[p].uw @@ users
  /\ txlog' = CommitLog(txlog, plan[p].tw, plan[p].ins)
  /\ stale' = [q \in Procs |->
                 IF q = p THEN NoStale
                 ELSE Outdated(stale[q], q, DOMAIN plan[p].uw, DOMAIN plan[p].tw)]
  /\ wstale' = Outdated(wstale, Worker, DOMAIN plan[p].uw, DOMAIN plan[p].tw)
  /\ resp' = [resp EXCEPT ![p] =
                Answer(200, IF plan[p].ret = NewTx THEN Len(txlog) + 1 ELSE plan[p].ret)]
  /\ pc' = [pc EXCEPT ![p] = "respond"]
  /\ UNCHANGED <<idemCache, req, plan, queue, job, wpc, wplan, jobResult, balanceCache, reader, calc>>

\* invalidateBalanceCache(userIds): the keys are deleted when Redis is ready
InvalidateBalanceCache(ids, avail) ==
  IF avail THEN [u \in DOMAIN balanceCache |->
                   IF u \in ids THEN NotCached ELSE balanceCache[u]]
  ELSE balanceCache
\* the ids handler p passes to invalidateBalanceCache after its commit
CacheKeysOf(p) ==
  IF plan[p].code # 200 THEN {}
  ELSE IF req[p].op = "transfer" /\ req[p].type = "manual"
    THEN {req[p].fromUserId, req[p].toUserId} \ {NoUser}
  ELSE IF req[p].op \in {"approve", "reverse"}
    THEN {txlog[req[p].txid].fromUserId, txlog[req[p].txid].toUserId}
  ELSE IF req[p].op = "mint" THEN DOMAIN plan[p].uw
  ELSE IF req[p].op = "recover" THEN {req[p].fromUserId, req[p].toUserId}
  ELSE {}

\* after a commit: setIdempotency (transfer only) and invalidateBalanceCache;
\* then the answer is sent
Finish(p) ==
  /\ pc[p] = "respond"
  /\ \E avail \in BOOLEAN :
       idemCache' = IF req[p].op = "transfer" /\ plan[p].code = 200
                    THEN SetIdempotency(req[p].key, avail) ELSE idemCache
  /\ pc' = [pc EXCEPT ![p] = "idle"]
  /\ req' = [req EXCEPT ![p] = NoReq]
  /\ plan' = [plan EXCEPT ![p] = NoPlan]
  /\ \E avail \in BOOLEAN :
       balanceCache' = InvalidateBalanceCache(CacheKeysOf(p), avail)
  /\ resp' = [resp EXCEPT ![p] = NoResp]
  /\ UNCHANGED <<users, txlog, stale, WorkerVars, reader, calc>>

\* the operations that publish to the sockets after their commit
Publishes(p) ==
  req[p].op \in {"transfer", "approve", "reject", "reverse", "mint", "recover"}

\* io.emit throws after commitTransaction, setIdempotency and
\* invalidateBalanceCache: control goes to the catch block, whose
\* abortTransaction comes after the commit; the client gets the 500 of the
\* catch block, or nothing when abortTransaction itself throws
PublishFails(p) ==
  /\ pc[p] = "respond"
  /\ plan[p].code = 200
  /\ Publishes(p)
  /\ \E avail \in BOOLEAN :
       idemCache' = IF req[p].op = "transfer"
                    THEN SetIdempotency(req[p].key, avail) ELSE idemCache
  /\ \E avail \in BOOLEAN :
       balanceCache' = InvalidateBalanceCache(CacheKeysOf(p), avail)
  /\ plan' = [plan EXCEPT ![p] = NoPlan]
  /\ \E answered \in BOOLEAN :
       resp' = [resp EXCEPT ![p] = IF answered THEN [code |-> 500, tx |-> 0]
                                   ELSE NoResp]
  /\ UNCHANGED <<users, txlog, pc, req, stale, WorkerVars, reader, calc>>

\* redis.setex(..., ttl): the key expires
Expire(k) ==
  /\ k \in idemCache
  /\ idemCache' = idemCache \ {k}
  /\ UNCHANGED <<users, txlog, pc, req, plan, stale, resp, WorkerVars, balanceCache, reader, calc>>

(* --------------------------- bulk transfers --------------------------- *)
\* rows that parseBulkTransferCSV lets through: toUserId present, amount > 0
BulkRow3(f, t, a) == [fromUserId |-> f, toUserId |-> t, amount |-> a]
BulkRows ==
  {BulkRow3(NoUser, "p1", 1), BulkRow3(NoUser, Ghost, 1),
   BulkRow3(NoUser, "p1", AmountCeiling + 1),
   BulkRow3("p1", "p2", 1), BulkRow3("p1", "p1", 1), BulkRow3(Ghost, "p2", 1)}
JobsOfLen(n) == [1..n -> BulkRows]
HandlerVars == <<pc, req, plan, stale, resp>>

\* the batch id of a new job, `bulk-${Date.now()}-${random}`: one that no
\* entry of the log and no job waiting or in progress carries
FreshBatch ==
  LET used == {0} \cup {txlog[i].batchId : i \in 1..Len(txlog)}
                  \cup {queue[i].batchId : i \in 1..Len(queue)} \cup {job.batchId}
  IN  CHOOSE b \in 1..(Cardinality(used) + 1) :
        b \notin used /\ \A c \in 1..(b - 1) : c \in used

\* bulkTransfer: the parsed rows are queued as one job
Enqueue(rows) ==
  /\ Len(queue) < MaxQueue
  /\ HasRoom(Len(rows))
  /\ \A u \in DOMAIN users : users[u].balance <= MaxBalance
  /\ queue' = Append(queue, [rows |-> rows, attemptsMade |-> 0, batchId |-> FreshBatch])
  /\ UNCHANGED <<users, txlog, idemCache, HandlerVars, job, wpc, wplan, wstale, jobResult, balanceCache, reader, calc>>

\* the worker takes the next job: startTransaction and the loop over its rows
WorkerTake ==
  /\ wpc = "idle" /\ queue # <<>>
  /\ job' = Head(queue)
  /\ queue' = Tail(queue)
  /\ wplan' = PlanBulk(Db, Head(queue).rows, "adm")
  /\ wstale' = NoStale
  /\ wpc' = "write"
  /\ UNCHANGED <<users, txlog, idemCache, HandlerVars, jobResult, balanceCache, reader, calc>>

\* variant: a job whose last attempt fails is dropped without a report
WorkerWriteLosesJob ==
  /\ wpc = "write"
  /\ IF WriteConflict(Worker)
     THEN /\ wpc' = "idle"
          /\ wplan' = NoBulkPlan
          /\ wstale' = NoStale
          /\ job' = NoJob
          /\ queue' = IF job.attemptsMade + 1 < JobAttempts
                      THEN Append(queue, [job EXCEPT !.attemptsMade = @ + 1])
                      ELSE queue
          /\ UNCHANGED jobResult
     ELSE /\ wpc' = "commit"
          /\ UNCHANGED <<queue, job, wplan, wstale, jobResult>>
  /\ UNCHANGED <<users, txlog, idemCache, HandlerVars, balanceCache, reader, calc>>

\* the saves of the rows; a write conflict ends the session, the commit then
\* throws and the job fails: retried while attempts remain
WorkerWrite ==
  /\ wpc = "write"
  /\ IF WriteConflict(Worker)
     THEN /\ wpc' = "idle"
          /\ wplan' = NoBulkPlan
          /\ wstale' = NoStale
          /\ job' = NoJob
          /\ IF job.attemptsMade + 1 < JobAttempts
             THEN /\ queue' = Append(queue, [job EXCEPT !.attemptsMade = @ + 1])
                  /\ UNCHANGED jobResult
             ELSE /\ jobResult' = Result("failed", 0, <<>>)
                  /\ UNCHANGED queue
     ELSE /\ wpc' = "commit"
          /\ UNCHANGED <<queue, job, wplan, wstale, jobResult>>
  /\ UNCHANGED <<users, txlog, idemCache, HandlerVars, balanceCache, reader, calc>>

\* session.commitTransaction() of the job, invalidateBalanceCache of the
\* rows' toUserId; return { success, failed, errors }
WorkerCommit ==
  /\ wpc = "commit"
  /\ \E avail \in BOOLEAN :
       balanceCache' = InvalidateBalanceCache(
                         {job.rows[i].toUserId : i \in 1..Len(job.rows)}, avail)
  /\ users' = wplan.uw @@ users
  /\ txlog' = txlog \o Stamp(wplan.ins, job.batchId)
  /\ stale' = [q \in Procs |-> Outdated(stale[q], q, DOMAIN wplan.uw, {})]
  /\ jobResult' = Result("completed", wplan.success, wplan.errors)
  /\ job' = NoJob
  /\ wplan' = NoBulkPlan
  /\ wstale' = NoStale
  /\ wpc' = "idle"
  /\ UNCHANGED <<idemCache, pc, req, plan, resp, queue, reader, calc>>

\* the job commits but its completion never reaches the queue (the worker
\* stalls or dies after commitTransaction): the queue delivers the same job
\* data, batch id included, once more
Redeliver ==
  /\ wpc = "commit"
  /\ Len(queue) < MaxQueue
  /\ Len(txlog) + Len(wplan.ins) + Reserved <= MaxLog
  /\ \A u \in DOMAIN wplan.uw : wplan.uw[u].balance <= MaxBalance
  /\ users' = wplan.uw @@ users
  /\ txlog' = txlog \o Stamp(wplan.ins, job.batchId)
  /\ stale' = [q \in Procs |-> Outdated(stale[q], q, DOMAIN wplan.uw, {})]
  /\ queue' = Append(queue, job)
  /\ job' = NoJob
  /\ wplan' = NoBulkPlan
  /\ wstale' = NoStale
  /\ wpc' = "idle"
  /\ UNCHANGED <<idemCache, pc, req, plan, resp, jobResult, balanceCache, reader, calc>>

(* ----------------------------- getBalance ----------------------------- *)
Players == {u \in Users : u # "adm"}

\* getBalance of player u: getCachedBalance, null when Redis is not ready
GetCached(u) ==
  /\ reader.pc = "idle"
  /\ \E avail \in BOOLEAN :
       reader' = IF avail /\ balanceCache[u] # NotCached
                 THEN [pc |-> "done", user |-> u, val |-> balanceCache[u]]
                 ELSE [pc |-> "miss", user |-> u, val |-> 0]
  /\ UNCHANGED <<users, txlog, idemCache, HandlerVars, WorkerVars, balanceCache, calc>>

\* User.findById(req.user._id), outside any session
ReadStore ==
  /\ reader.pc = "miss"
  /\ reader' = [reader EXCEPT !.pc = "set", !.val = users[reader.user].balance]
  /\ UNCHANGED <<users, txlog, idemCache, HandlerVars, WorkerVars, balanceCache, calc>>

\* setCachedBalance(id, JSON.stringify(formattedUser)), skipped when Redis is
\* not ready
SetCached ==
  /\ reader.pc = "set"
  /\ \E avail \in BOOLEAN :
       balanceCache' = IF avail THEN [balanceCache EXCEPT ![reader.user] = reader.val]
                       ELSE balanceCache
  /\ reader' = [reader EXCEPT !.pc = "done"]
  /\ UNCHANGED <<users, txlog, idemCache, HandlerVars, WorkerVars, calc>>

\* res.json: the balance in reader.val is returned
Return ==
  /\ reader.pc = "done"
  /\ reader' = NoReader
  /\ UNCHANGED <<users, txlog, idemCache, HandlerVars, WorkerVars, balanceCache, calc>>

\* redis.setex(key, CACHE_TTL, ...): the entry expires
ExpireBalance(u) ==
  /\ balanceCache[u] # NotCached
  /\ balanceCache' = [balanceCache EXCEPT ![u] = NotCached]
  /\ UNCHANGED <<users, txlog, idemCache, HandlerVars, WorkerVars, reader, calc>>

(* -------------------- Number: IEEE-754 double values ------------------- *)
\* Number(value) is a binary64: a significand of 53 bits and an exponent. A
\* positive double is [e, m]: m its 53 bits, most significant first (m[1] = 1),
\* its value m[1].m[2]...m[53] (binary) times 2^e. Amounts and balances are
\* far from the ends of the exponent range.
MantissaBits == 53
Scale == 100   \* an amount n stands for the decimal n / 100 (the validator's 0.01)
Zero == [e |-> 0, m |-> <<>>]
Zeros(n) == [i \in 1..n |-> 0]

\* num / den brought into [1, 2) by powers of two
RECURSIVE Norm(_, _, _)
Norm(num, den, e) ==
  IF num >= 2 * den THEN Norm(num, 2 * den, e + 1)
  ELSE IF num < den THEN Norm(2 * num, den, e - 1)
  ELSE [num |-> num, den |-> den, e |-> e]

\* what is left of r / den (r < den) after each of its first k bits
Remainders(r, den, k) ==
  LET R[i \in 0..k] == IF i = 0 THEN r ELSE (2 * R[i - 1]) % den
  IN  [i \in 0..k |-> R[i]]

\* bits + 1
IncBits(b) ==
  LET zs == {i \in 1..Len(b) : b[i] = 0}
  IN  IF zs = {} THEN <<1>> \o Zeros(Len(b))
      ELSE LET p == CHOOSE i \in zs : \A j \in zs : j <= i
           IN  [i \in 1..Len(b) |-> IF i < p THEN b[i] ELSE IF i = p THEN 1 ELSE 0]

\* the double of exponent e and bits m, one unit in the last place higher if up
Pack(e, m, up) ==
  IF ~up THEN [e |-> e, m |-> m]
  ELSE LET i == IncBits(m)
       IN  IF Len(i) > MantissaBits
           THEN [e |-> e + 1, m |-> SubSeq(i, 1, MantissaBits)]
           ELSE [e |-> e, m |-> i]

\* Number("n/100"): the double nearest to the decimal, ties to even
ToDouble(n) ==
  IF n = 0 THEN Zero
  ELSE LET nm == Norm(n, Scale, 0)
           rs == Remainders(nm.num - nm.den, nm.den, MantissaBits - 1)
           m == [i \in 1..MantissaBits |->
                   IF i = 1 \/ 2 * rs[i - 2] >= nm.den THEN 1 ELSE 0]
           rest == rs[MantissaBits - 1]
       IN  Pack(nm.e, m, 2 * rest > nm.den
                           \/ (2 * rest = nm.den /\ m[MantissaBits] = 1))

\* the double nearest to the number whose bits are sig (sig[1] = 1), ties to even
Round(e, sig) ==
  IF Len(sig) <= MantissaBits
  THEN [e |-> e, m |-> sig \o Zeros(MantissaBits - Len(sig))]
  ELSE LET m == SubSeq(sig, 1, MantissaBits)
           more == \E i \in (MantissaBits + 2)..Len(sig) : sig[i] = 1
       IN  Pack(e, m, sig[MantissaBits + 1] = 1 /\ (more \/ m[MantissaBits] = 1))

\* a + b of two bit strings of one length, the carry out in front when set
AddBits(a, b) ==
  LET n == Len(a)
      C[i \in 0..n] == IF i = n THEN 0 ELSE (a[i + 1] + b[i + 1] + C[i + 1]) \div 2
      c == [i \in 0..n |-> C[i]]
      s == [i \in 1..n |-> (a[i] + b[i] + c[i]) % 2]
  IN  IF c[0] = 1 THEN <<1>> \o s ELSE s
\* a - b of two bit strings of one length, a >= b
SubBits(a, b) ==
  LET n == Len(a)
      B[i \in 0..n] == IF i = n THEN 0
                       ELSE IF a[i + 1] - b[i + 1] - B[i + 1] < 0 THEN 1 ELSE 0
      w == [i \in 0..n |-> B[i]]
  IN  [i \in 1..n |-> (a[i] - b[i] - w[i] + 2) % 2]
\* without its leading zeros
Strip(b) ==
  LET ones == {i \in 1..Len(b) : b[i] = 1}
  IN  IF ones = {} THEN <<>>
      ELSE SubSeq(b, CHOOSE i \in ones : \A j \in ones : i <= j, Len(b))

\* a - b of compareDecimal, by its sign: -1, 0 or 1
DoubleCmp(x, y) ==
  IF x = y THEN 0
  ELSE IF x = Zero THEN -1
  ELSE IF y = Zero THEN 1
  ELSE IF x.e # y.e THEN (IF x.e > y.e THEN 1 ELSE -1)
  ELSE LET i == CHOOSE k \in 1..MantissaBits :
                  x.m[k] # y.m[k] /\ \A l \in 1..(k - 1) : x.m[l] = y.m[l]
       IN  IF x.m[i] > y.m[i] THEN 1 ELSE -1

\* x + y of two doubles: the exact sum, rounded once
DoubleAdd(x, y) ==
  IF x = Zero THEN y
  ELSE IF y = Zero THEN x
  ELSE LET hi == IF x.e >= y.e THEN x ELSE y
           lo == IF x.e >= y.e THEN y ELSE x
           d == hi.e - lo.e
           s == AddBits(hi.m \o Zeros(d), Zeros(d) \o lo.m)
       IN  Round(hi.e + (Len(s) - (MantissaBits + d)), s)

\* x - y of two doubles, x >= y: the exact difference, rounded once
DoubleSub(x, y) ==
  IF y = Zero THEN x
  ELSE IF x = y THEN Zero
  ELSE LET d == x.e - y.e
           s == SubBits(x.m \o Zeros(d), Zeros(d) \o y.m)
           t == Strip(s)
       IN  Round(x.e - (Len(s) - Len(t)), t)

(* ------------------------- balance arithmetic ------------------------- *)
\* The stored Decimal128 is fromString(String(x)) of a double x: the shortest
\* decimal that reads back as x, so a stored balance is identified with its
\* double, and it is the decimal n / 100 exactly when x = ToDouble(n). Each
\* step below is one evaluation of the handler's expression on fresh operands.
LedgerVars ==
  <<users, txlog, idemCache, HandlerVars, WorkerVars, balanceCache, reader>>

\* receiver.balance = fromString(String(Number(balance.toString()) + Number(amount)))
CreditBalance(b, a) ==
  /\ calc = NoCalc
  /\ calc' = [b |-> b, a |-> a, op |-> "credit",
              out |-> DoubleAdd(ToDouble(b), ToDouble(a))]
  /\ UNCHANGED LedgerVars

\* compareDecimal(senderBalance, amtDec) < 0 refuses; otherwise
\* sender.balance = fromString(String(Number(balance.toString()) - Number(amount)))
DebitBalance(b, a) ==
  /\ calc = NoCalc
  /\ DoubleCmp(ToDouble(b), ToDouble(a)) >= 0
  /\ calc' = [b |-> b, a |-> a, op |-> "debit",
              out |-> DoubleSub(ToDouble(b), ToDouble(a))]
  /\ UNCHANGED LedgerVars

\* compareDecimal(a, b): Number(a.toString()) - Number(b.toString())
CompareBalance(b, a) ==
  /\ calc = NoCalc
  /\ calc' = [b |-> b, a |-> a, op |-> "compare",
              out |-> DoubleCmp(ToDouble(b), ToDouble(a))]
  /\ UNCHANGED LedgerVars

(* ========================== specifications ============================ *)
\* The ledger operations, one request at a time.
LedgerReqs ==
  ManualReqs({NoUser} \cup Parties, Parties, Amounts, {NoKey})
    \cup PlayerReqs \cup WrongTypeReqs \cup TxReqs \cup MintReqs \cup HookReqs
Next ==
  \/ \E r \in LedgerReqs : Receive("h1", r)
  \/ Write("h1")
  \/ Commit("h1")
  \/ Finish("h1")
Spec == Init /\ [][Next]_vars

\* Account administration and chip recovery, one request at a time.
RecoveryReqs ==
  ManualReqs({NoUser}, {"p1", "p2"}, {1, AmountCeiling}, {NoKey})
    \cup AccountReqs \cup RecoverReqs
NextRecovery ==
  \/ \E r \in RecoveryReqs : Receive("h1", r)
  \/ Write("h1")
  \/ Commit("h1")
  \/ Finish("h1")
SpecRecovery == Init /\ [][NextRecovery]_vars

\* Bulk jobs beside one handler that funds and debits the players.
BulkSideReqs ==
  ManualReqs({NoUser}, {"p1"}, {1}, {NoKey}) \cup ManualReqs({"p1"}, {"p2"}, {1}, {NoKey})
NextBulk ==
  \/ \E r \in BulkSideReqs : Receive("h1", r)
  \/ Write("h1")
  \/ Commit("h1")
  \/ Finish("h1")
  \/ \E n \in 1..MaxRows : \E rows \in JobsOfLen(n) : Enqueue(rows)
  \/ WorkerTake
  \/ WorkerWrite
  \/ WorkerCommit
SpecBulk == Init /\ [][NextBulk]_vars

\* Bulk jobs on a queue that may deliver a committed job a second time.
NextRedelivery ==
  \/ \E n \in 1..MaxRows : \E rows \in JobsOfLen(n) : Enqueue(rows)
  \/ WorkerTake
  \/ WorkerWrite
  \/ WorkerCommit
  \/ Redeliver
SpecRedelivery == Init /\ [][NextRedelivery]_vars

\* Every kind of debit: transfers, approvals and reversals of one handler
\* beside bulk jobs whose rows credit and debit the same player (a row above
\* the ceiling credits its receiver without an entry).
DebitReqs ==
  ManualReqs({NoUser, "p1", "p2"}, {"p1", "p2"}, {1, AmountCeiling}, {NoKey})
    \cup {r \in PlayerReqs : r.amount = 1 /\ r.toUserId = "p2" /\ r.reason = <<>>}
    \cup {r \in TxReqs : r.op \in {"approve", "reverse"} /\ r.txid <= MaxLog}
DebitRows ==
  {BulkRow3(NoUser, "p1", 1), BulkRow3("p1", "p2", 1), BulkRow3(NoUser, "p2", AmountCeiling + 1)}
NextDebits ==
  \/ \E r \in DebitReqs : Receive("h1", r)
  \/ Write("h1")
  \/ Commit("h1")
  \/ Finish("h1")
  \/ \E n \in 1..MaxRows : \E rows \in [1..n -> DebitRows] : Enqueue(rows)
  \/ WorkerTake
  \/ WorkerWrite
  \/ WorkerCommit
SpecDebits == Init /\ [][NextDebits]_vars

\* A daily mint beside an administrator who bans and unbans a player.
MintSideReqs ==
  MintReqs \cup {Req("ban", "adm", NoUser, "p1", 0, "none", NoKey, 0, <<"r">>),
                 Req("unban", "adm", NoUser, "p1", 0, "none", NoKey, 0, <<>>)}
NextMint ==
  \/ \E p \in Procs : \E r \in MintSideReqs : Receive(p, r)
  \/ \E p \in Procs : Write(p)
  \/ \E p \in Procs : Commit(p)
  \/ \E p \in Procs : Finish(p)
SpecMint == Init /\ [][NextMint]_vars

\* Requests of every ledger operation, valid and invalid, from two clients.
ErrorReqs ==
  ManualReqs({NoUser, "p1"}, {"p1", "p2"}, {1, AmountCeiling + 1}, {NoKey})
    \cup {r \in PlayerReqs : r.amount = 1 /\ r.reason = <<>>}
    \cup {r \in TxReqs : r.txid <= 2 /\ r.reason = <<>>}
    \cup {r \in MintReqs : r.type = "default" \/ ~AmountValid(r.amount)}
    \cup {r \in AccountReqs : \/ r.op = "ban" /\ r.toUserId = "p1" /\ r.reason = <<"r">>
                              \/ r.op = "verify" /\ r.toUserId = "p2"}
    \cup {r \in RecoverReqs : /\ r.fromUserId \in {"p1", "p2"} /\ r.toUserId = "p2"
                              /\ r.reason = <<>>}
NextErrors ==
  \/ \E p \in Procs : \E r \in ErrorReqs : Receive(p, r)
  \/ \E p \in Procs : Write(p)
  \/ \E p \in Procs : Commit(p)
  \/ \E p \in Procs : Finish(p)
SpecErrors == Init /\ [][NextErrors]_vars

\* A player reading the balance while a handler and the bulk worker move chips.
CacheReqs ==
  ManualReqs({NoUser}, {"p1"}, {1}, {NoKey}) \cup ManualReqs({"p1"}, {"p2"}, {1}, {NoKey})
CacheRows == {BulkRow3(NoUser, "p1", 1), BulkRow3("p1", "p2", 1)}
NextCache ==
  \/ \E r \in CacheReqs : Receive("h1", r)
  \/ Write("h1")
  \/ Commit("h1")
  \/ Finish("h1")
  \/ \E n \in 1..MaxRows : \E rows \in [1..n -> CacheRows] : Enqueue(rows)
  \/ WorkerTake
  \/ WorkerWrite
  \/ WorkerCommit
  \/ \E u \in Players : GetCached(u)
  \/ ReadStore
  \/ SetCached
  \/ Return
  \/ \E u \in Players : ExpireBalance(u)
SpecCache == Init /\ [][NextCache]_vars

\* The ledger operations, one request at a time, with a publish that may throw.
NextNotify ==
  \/ \E r \in LedgerReqs : Receive("h1", r)
  \/ Write("h1")
  \/ Commit("h1")
  \/ PublishFails("h1")
  \/ Finish("h1")
SpecNotify == Init /\ [][NextNotify]_vars

\* Bulk jobs beside a handler whose commits on the rows' accounts make
\* attempts fail; the worker keeps running (concurrency 1, one job after the
\* other), the handler runs when requests come.
RetrySideReqs ==
  {Req("ban", "adm", NoUser, "p1", 0, "none", NoKey, 0, <<"r">>),
   Req("unban", "adm", NoUser, "p1", 0, "none", NoKey, 0, <<>>)}
RetryRows == {BulkRow3(NoUser, "p1", 1), BulkRow3("p1", "p2", 1)}
NextRetry ==
  \/ \E r \in RetrySideReqs : Receive("h1", r)
  \/ Write("h1")
  \/ Commit("h1")
  \/ Finish("h1")
  \/ \E n \in 1..MaxRows : \E rows \in [1..n -> RetryRows] : Enqueue(rows)
  \/ WorkerTake
  \/ WorkerWrite
  \/ WorkerCommit
SpecRetry ==
  /\ Init /\ [][NextRetry]_vars
  /\ WF_vars(WorkerTake) /\ WF_vars(WorkerWrite) /\ WF_vars(WorkerCommit)

\* The arithmetic of one credit, debit or comparison on decimal operands.
Cents == 0..MaxCents
NextArith ==
  \/ \E b \in Cents, a \in Cents \ {0} : CreditBalance(b, a)
  \/ \E b \in Cents, a \in Cents \ {0} : DebitBalance(b, a)
  \/ \E b \in Cents, a \in Cents \ {0} : CompareBalance(b, a)
SpecArith == Init /\ [][NextArith]_vars

\* Credits and debits of the same accounts, and the daily mint, served by two
\* handlers at once.
SerialReqs ==
  ManualReqs({NoUser, "p2"}, {"p1"}, {1}, {NoKey})
    \cup ManualReqs({"p1"}, {"p2"}, {1}, {NoKey})
    \cup {Req("mint", "adm", NoUser, NoUser, 0, "default", NoKey, 0, <<>>)}
NextSerial ==
  \/ \E p \in Procs, r \in SerialReqs : Receive(p, r)
  \/ \E p \in Procs : Write(p)
  \/ \E p \in Procs : Commit(p)
  \/ \E p \in Procs : Finish(p)
SpecSerial == Init /\ [][NextSerial]_vars

\* One transfer, always sent with the same idempotency key, by two clients.
GuardReqs == ManualReqs({NoUser}, {"p1"}, {1}, Keys)
NextGuard ==
  \/ \E p \in Procs, r \in GuardReqs : GuardConflict(p, r)
  \/ \E p \in Procs, r \in GuardReqs : GuardReplay(p, r)
  \/ \E p \in Procs, r \in GuardReqs : GuardPass(p, r)
  \/ \E p \in Procs, r \in GuardReqs : GuardError(p, r)
  \/ \E p \in Procs : Begin(p)
  \/ \E p \in Procs : Write(p)
  \/ \E p \in Procs : Commit(p)
  \/ \E p \in Procs : Finish(p)
  \/ \E k \in Keys : Expire(k)
SpecGuard == Init /\ [][NextGuard]_vars

\* Manual transfers served by two handlers at once.
RaceReqs ==
  ManualReqs({NoUser}, {"p1"}, {1, AmountCeiling}, {NoKey})
    \cup ManualReqs({"p1", "p2"}, {"p1", "p2"}, {1, AmountCeiling}, {NoKey})
NextRace ==
  \/ \E p \in Procs, r \in RaceReqs : Receive(p, r)
  \/ \E p \in Procs : Write(p)
  \/ \E p \in Procs : Commit(p)
  \/ \E p \in Procs : Finish(p)
SpecRace == Init /\ [][NextRace]_vars

\* Keyed requests on the two guarded routes, POST /transfer and POST
\* /recovery/chips, beside the unkeyed requests that fund and ban p1 and
\* verify p2.
KeyedSideReqs ==
  ManualReqs({NoUser}, {"p1"}, {1}, {NoKey})
    \cup {Req("ban", "adm", NoUser, "p1", 0, "none", NoKey, 0, <<"r">>),
          Req("verify", "adm", NoUser, "p2", 0, "none", NoKey, 0, <<>>)}
KeyedReqs ==
  ManualReqs({NoUser}, {"p2"}, {1}, Keys)
    \cup {Req("recover", "adm", "p1", "p2", 0, "none", k, 0, <<"r">>) : k \in Keys}
NextKeyed ==
  \/ \E r \in KeyedSideReqs : Receive("h1", r)
  \/ \E r \in KeyedReqs : GuardConflict("h1", r)
  \/ \E r \in KeyedReqs : GuardReplay("h1", r)
  \/ \E r \in KeyedReqs : GuardPass("h1", r)
  \/ \E r \in KeyedReqs : GuardError("h1", r)
  \/ Begin("h1")
  \/ Write("h1")
  \/ Commit("h1")
  \/ PublishFails("h1")
  \/ Finish("h1")
  \/ \E k \in Keys : Expire(k)
SpecKeyed == Init /\ [][NextKeyed]_vars

\* Two admins settle the same entries at once: approveRequest, rejectRequest
\* and reverseTransaction by both handlers, beside the mint that funds p1, the
\* request of p1 and the transfer from p1 to p2.
AdminReqs ==
  ManualReqs({NoUser, "p1"}, {"p1", "p2"}, {1}, {NoKey})
    \cup {Req("transfer", "p1", NoUser, "p2", 1, "request", NoKey, 0, <<>>)}
    \cup {Req(op, "adm", NoUser, NoUser, 0, "none", NoKey, id, <<>>) :
            op \in {"approve", "reject", "reverse"}, id \in 1..MaxLog}
NextAdmins ==
  \/ \E p \in Procs, r \in AdminReqs : Receive(p, r)
  \/ \E p \in Procs : Write(p)
  \/ \E p \in Procs : Commit(p)
  \/ \E p \in Procs : Finish(p)
SpecAdmins == Init /\ [][NextAdmins]_vars

(* ============================= properties ============================= *)
RECURSIVE ApprovedTo(_, _, _)
ApprovedTo(log, u, i) ==
  IF i = 0 THEN 0
  ELSE (IF log[i].status = "approved" /\ log[i].toUserId = u THEN log[i].amount ELSE 0)
       + ApprovedTo(log, u, i - 1)
RECURSIVE ApprovedFrom(_, _, _)
ApprovedFrom(log, u, i) ==
  IF i = 0 THEN 0
  ELSE (IF log[i].status = "approved" /\ log[i].fromUserId = u THEN log[i].amount ELSE 0)
       + ApprovedFrom(log, u, i - 1)

\* C1: every balance equals the approved amounts credited to the account in the
\* log minus the approved amounts debited from it.
C1_BalanceIsApprovedSum ==
  \A u \in DOMAIN users :
    users[u].balance = ApprovedTo(txlog, u, Len(txlog)) - ApprovedFrom(txlog, u, Len(txlog))

\* a transfer that debits an account
Debits(r) == r.op = "transfer" /\ r.fromUserId # NoUser

\* C2: no balance is ever negative, and a manual transfer that has written and is
\* about to commit debits the sender's current balance, so concurrent transfers
\* that together exceed the balance cannot all commit.
C2_NoOverdraft ==
  /\ \A u \in DOMAIN users : users[u].balance >= 0
  /\ \A p \in Procs :
       pc[p] = "commit" /\ Debits(req[p]) =>
         plan[p].uw[req[p].fromUserId].balance
           = users[req[p].fromUserId].balance - req[p].amount

\* C2 witness: h1 has committed a debit of p1 while h2, whose debit of p1 passed
\* its balance check on the same snapshot, is still to write; together they
\* exceed what p1 had.
C2_Witness ==
  /\ pc["h1"] = "respond" /\ Debits(req["h1"]) /\ req["h1"].fromUserId = "p1"
  /\ pc["h2"] = "write" /\ Debits(req["h2"]) /\ req["h2"].fromUserId = "p1"
  /\ "p1" \in stale["h2"].u
  /\ req["h2"].amount > users["p1"].balance

\* the log entries that carry idempotency key k
WithKey(k) == {i \in 1..Len(txlog) : txlog[i].idempotencyKey = k}
\* the one transfer the clients of SpecGuard send
TheTransfer == CHOOSE r \in GuardReqs : TRUE

\* C3: however often and however concurrently the same transfer is sent with
\* the same idempotency key, at most one log entry carries a given key and the
\* transfer's effect is applied once: one entry, the receiver credited once.
C3_AppliedOnce ==
  /\ \A k \in Keys : Cardinality(WithKey(k)) <= 1
  /\ Len(txlog) <= 1
  /\ users[TheTransfer.toUserId].balance <= TheTransfer.amount

\* a step in which the guard itself answers handler p
GuardAnswers(p) == pc[p] = "idle" /\ pc'[p] = "respond"

Commits(p, op) == pc[p] = "commit" /\ pc'[p] = "respond" /\ req[p].op = op
\* the step in which handler p takes up a request of kind op on entry id
TakesUp(p, op) ==
  pc[p] = "idle" /\ pc'[p] # "idle" /\ req'[p].op = op /\ req'[p].txid \in 1..Len(txlog)
\* the step in which handler p refuses the request it has taken up
Refuses(p) ==
  /\ pc'[p] = "respond" /\ resp'[p].code \notin {0, 200}
  /\ users' = users /\ txlog' = txlog

\* C5: a manual transfer of X from A to B debits A and credits B by X, and its
\* reversal appends an approved reversal entry from B to A of amount X, credits A
\* and debits B by X (so both are back at their values from before the
\* transfer), leaves the other accounts alone and marks the original reversed.
C5_ReversalRestores ==
  [][\A p \in Procs :
       /\ Commits(p, "transfer") /\ Debits(req[p]) =>
            /\ users'[req[p].fromUserId].balance
                 = users[req[p].fromUserId].balance - req[p].amount
            /\ users'[req[p].toUserId].balance
                 = users[req[p].toUserId].balance + req[p].amount
       /\ Commits(p, "reverse") /\ txlog[req[p].txid].type = "manual" =>
            LET id == req[p].txid
                X == txlog[id]
                R == txlog'[Len(txlog')]
            IN /\ X.status = "approved"
               /\ users'[X.fromUserId].balance = users[X.fromUserId].balance + X.amount
               /\ users'[X.toUserId].balance = users[X.toUserId].balance - X.amount
               /\ \A u \in DOMAIN users \ {X.fromUserId, X.toUserId} : users'[u] = users[u]
               /\ Len(txlog') = Len(txlog) + 1
               /\ R.type = "reversal" /\ R.status = "approved" /\ R.isReversal
               /\ R.fromUserId = X.toUserId /\ R.toUserId = X.fromUserId
               /\ R.amount = X.amount /\ R.reversedTransactionId = id
               /\ txlog'[id] = [X EXCEPT !.status = "reversed"]
               /\ \A i \in (1..Len(txlog)) \ {id} : txlog'[i] = txlog[i]]_vars

\* C5 witness: the reversal of a manual transfer has just committed.
C5_Witness ==
  /\ pc["h1"] = "respond" /\ req["h1"].op = "reverse" /\ resp["h1"].code = 200
  /\ txlog[req["h1"].txid].type = "manual"
  /\ txlog[req["h1"].txid].status = "reversed"
  /\ txlog[Len(txlog)].type = "reversal"

StatusMoves == {<<"pending", "approved">>, <<"pending", "failed">>, <<"approved", "reversed">>}

\* C6: an entry's status only moves pending -> approved, pending -> failed or
\* approved -> reversed; a reverse of a reversed or reversal-kind entry and an
\* approve or reject of an entry that is not a pending request are refused; a
\* refused request leaves balances and log as they were.
C6_StatusMachine ==
  [][/\ \A i \in 1..Len(txlog) :
          /\ i <= Len(txlog')
          /\ txlog'[i].status # txlog[i].status =>
               <<txlog[i].status, txlog'[i].status>> \in StatusMoves
     /\ \A p \in Procs :
          /\ TakesUp(p, "reverse")
               /\ (txlog[req'[p].txid].status = "reversed"
                     \/ txlog[req'[p].txid].type = "reversal")
               => Refuses(p)
          /\ (TakesUp(p, "approve") \/ TakesUp(p, "reject"))
               /\ (txlog[req'[p].txid].status # "pending"
                     \/ txlog[req'[p].txid].type # "request")
               => Refuses(p)
          /\ pc'[p] = "respond" /\ pc[p] # "respond" /\ resp'[p].code # 200
               => users' = users /\ txlog' = txlog]_vars

\* C6 witness: a second reverse of an entry already reversed has been refused.
C6_Witness ==
  /\ pc["h1"] = "respond" /\ req["h1"].op = "reverse" /\ resp["h1"].code = 400
  /\ req["h1"].txid \in 1..Len(txlog)
  /\ txlog[req["h1"].txid].status = "reversed"

Immutable(e) == <<e.fromUserId, e.toUserId, e.amount, e.type, e.idempotencyKey>>

\* C7: the log only grows: no step removes an entry or changes an entry's
\* sender, receiver, amount, kind or idempotency key, and the update and delete
\* entry points are refused whatever entry they name.
C7_AppendOnly ==
  [][/\ Len(txlog') >= Len(txlog)
     /\ \A i \in 1..Len(txlog) : Immutable(txlog'[i]) = Immutable(txlog[i])
     /\ \A p \in Procs :
          TakesUp(p, "updateTx") \/ TakesUp(p, "deleteTx") =>
            Refuses(p) /\ resp'[p].code = 500]_vars

\* C7 witness: an update of an existing entry has been refused after the log
\* had seen an approval.
C7_Witness ==
  /\ pc["h1"] = "respond" /\ req["h1"].op = "updateTx" /\ resp["h1"].code = 500
  /\ req["h1"].txid \in 1..Len(txlog)
  /\ txlog[req["h1"].txid].type = "request"
  /\ txlog[req["h1"].txid].status = "approved"

\* C8: a recovery that commits found the source banned, the destination
\* verified and distinct, and the source's balance positive; it sets the source
\* to zero, credits the destination with the source's whole previous balance,
\* leaves every other account and every earlier entry alone, and appends exactly
\* one approved chip-recovery entry from source to destination for that amount,
\* naming the source as recovery source.
C8_RecoveryMovesAll ==
  [][\A p \in Procs :
       Commits(p, "recover") =>
         LET a == req[p].fromUserId
             b == req[p].toUserId
             e == txlog'[Len(txlog')]
         IN /\ a # b /\ users[a].isBanned /\ users[b].isVerified
            /\ users[a].balance > 0
            /\ users'[a].balance = 0
            /\ users'[b].balance = users[b].balance + users[a].balance
            /\ \A u \in DOMAIN users \ {a, b} : users'[u] = users[u]
            /\ Len(txlog') = Len(txlog) + 1
            /\ \A i \in 1..Len(txlog) : txlog'[i] = txlog[i]
            /\ e.type = "chip-recovery" /\ e.status = "approved"
            /\ e.fromUserId = a /\ e.toUserId = b
            /\ e.amount = users[a].balance /\ e.recoveryFromUserId = a]_vars

\* C8 witness: a recovery of two units into an account that already held
\* chips has just committed.
C8_Witness ==
  /\ pc["h1"] = "respond" /\ req["h1"].op = "recover" /\ resp["h1"].code = 200
  /\ txlog[Len(txlog)].type = "chip-recovery"
  /\ txlog[Len(txlog)].amount = AmountCeiling
  /\ users[req["h1"].fromUserId].balance = 0
  /\ users[req["h1"].toUserId].balance > AmountCeiling

\* a recovery request that must not go through in the accounts us
Unrecoverable(us, r) ==
  \/ r.fromUserId \notin DOMAIN us
  \/ r.toUserId \notin DOMAIN us
  \/ r.fromUserId = r.toUserId
  \/ ~us[r.fromUserId].isBanned
  \/ ~us[r.toUserId].isVerified
  \/ us[r.fromUserId].balance <= 0

\* C9: a recovery whose source is not banned, whose destination is not
\* verified, whose source and destination are the same or missing, or whose
\* source holds nothing is refused, and balances, flags and log stay unchanged.
C9_RecoveryRefused ==
  [][\A p \in Procs :
       pc[p] = "idle" /\ pc'[p] # "idle" /\ req'[p].op = "recover"
         /\ Unrecoverable(users, req'[p])
       => Refuses(p)]_vars

\* C9 witness: a recovery from a banned account that holds nothing into a
\* verified account has been refused.
C9_Witness ==
  /\ pc["h1"] = "respond" /\ req["h1"].op = "recover" /\ resp["h1"].code = 400
  /\ req["h1"].fromUserId \in DOMAIN users /\ req["h1"].toUserId \in DOMAIN users
  /\ req["h1"].fromUserId # req["h1"].toUserId
  /\ users[req["h1"].fromUserId].isBanned
  /\ users[req["h1"].toUserId].isVerified
  /\ users[req["h1"].fromUserId].balance = 0
  /\ txlog # <<>>

\* a row whose sender and receiver differ and whose amount the log accepts
PlainRow(row) == row.fromUserId # row.toUserId /\ row.amount <= AmountCeiling
\* a row to apply against balances bal: its accounts exist and the sender,
\* if any, holds the amount
RowValid(bal, row) ==
  /\ row.toUserId \in DOMAIN bal
  /\ row.fromUserId # NoUser =>
       row.fromUserId \in DOMAIN bal /\ bal[row.fromUserId] >= row.amount
\* rows i.. applied in order to balances bal, the rows that are not valid skipped
RECURSIVE RowsInOrder(_, _, _)
RowsInOrder(bal, rows, i) ==
  IF i > Len(rows) THEN [bal |-> bal, applied |-> <<>>, skipped |-> <<>>]
  ELSE LET row == rows[i]
           ok == RowValid(bal, row)
           after == IF ok
                    THEN [u \in DOMAIN bal |->
                            bal[u] + (IF u = row.toUserId THEN row.amount ELSE 0)
                                   - (IF u = row.fromUserId THEN row.amount ELSE 0)]
                    ELSE bal
           rest == RowsInOrder(after, rows, i + 1)
       IN [bal |-> rest.bal,
           applied |-> (IF ok THEN <<row>> ELSE <<>>) \o rest.applied,
           skipped |-> (IF ok THEN <<>> ELSE <<row>>) \o rest.skipped]

Appended == SubSeq(txlog', Len(txlog) + 1, Len(txlog'))
\* the step in which the worker commits its job
JobCommits == wpc = "commit" /\ wpc' = "idle"

\* C11: when a job commits, the rows in its error list have changed nothing:
\* (for a job without a row from an account to itself) every balance moves by
\* exactly what the entries appended for the successful rows credit and debit,
\* and one entry is appended per successful row.
C11_ErrorRowsSkipped ==
  [][JobCommits /\ (\A i \in 1..Len(job.rows) : job.rows[i].fromUserId # job.rows[i].toUserId) =>
       /\ Len(Appended) = jobResult'.success
       /\ \A u \in DOMAIN users :
            users'[u].balance - users[u].balance
              = ApprovedTo(Appended, u, Len(Appended))
                  - ApprovedFrom(Appended, u, Len(Appended))]_vars


\* C12: a job is applied once: the entries carrying one batch id are all
\* appended by a single processing of the job, so a step that appends entries
\* of a batch finds none of that batch in the log, however often the queue
\* delivers the job.
C12_JobAppliedOnce ==
  [][\A i \in 1..Len(Appended) :
       Appended[i].batchId # 0 /\ Appended[i].type = "manual" =>
         \A j \in 1..Len(txlog) : txlog[j].batchId # Appended[i].batchId]_vars


Fails(p, op) ==
  /\ pc[p] # "respond" /\ pc'[p] = "respond"
  /\ req'[p].op = op
  /\ resp'[p].code # 200

\* C14: a dailyMint that fails, whether on an account save or on the insertion
\* of its entries, changes no balance and appends nothing; and the log never
\* holds a part of a mint: the daily-mint entries of one batch are one per account.
C14_MintAllOrNothing ==
  [][/\ \A p \in Procs : Fails(p, "mint") => users' = users /\ txlog' = txlog
     /\ \A i \in 1..Len(txlog') :
          txlog'[i].type = "daily-mint" =>
            \A u \in DOMAIN users' :
              \E j \in 1..Len(txlog') :
                /\ txlog'[j].batchId = txlog'[i].batchId
                /\ txlog'[j].type = "daily-mint"
                /\ txlog'[j].toUserId = u
                /\ users'[u].balance >= txlog'[j].amount]_vars

\* C14 witness: a dailyMint of a valid amount has failed on a save, the player
\* it was to credit having been banned by another administrator meanwhile;
\* no account holds anything and the log is empty.
C14_Witness ==
  /\ \E p \in Procs :
       /\ pc[p] = "respond" /\ req[p].op = "mint" /\ resp[p].code = 500
       /\ AmountValid(MintAmount(req[p]))
  /\ users["p1"].isBanned
  /\ \A u \in DOMAIN users : users[u].balance = 0
  /\ txlog = <<>>


\* the operations that write the ledger
LedgerOps == {"transfer", "approve", "reject", "reverse", "mint", "recover"}

\* C15: the step in which a transfer, approveRequest, rejectRequest,
\* reverseTransaction, dailyMint or recoverChips gets an error answer, be it
\* from a validation or from a failed write, leaves every account and the
\* whole log as they were.
C15_ErrorChangesNothing ==
  [][\A p \in Procs : \A op \in LedgerOps :
       Fails(p, op) => users' = users /\ txlog' = txlog]_vars

\* C15 witness: with an entry in the log and chips on an account, a transfer
\* of a valid amount between two existing accounts has failed on a write.
C15_Witness ==
  /\ txlog # <<>>
  /\ \E u \in DOMAIN users : users[u].balance > 0
  /\ \E p \in Procs :
       /\ pc[p] = "respond" /\ req[p].op = "transfer" /\ resp[p].code = 500
       /\ AmountValid(req[p].amount)
       /\ req[p].fromUserId = "p1" /\ req[p].toUserId = "p2"


\* the account that request r would debit, and by how much (NoUser: none)
DebitOf(r) ==
  IF r.op = "transfer" /\ r.type = "manual" THEN [who |-> r.fromUserId, amount |-> r.amount]
  ELSE IF r.op = "approve" /\ r.txid \in 1..Len(txlog)
    THEN [who |-> txlog[r.txid].fromUserId, amount |-> txlog[r.txid].amount]
  ELSE IF r.op = "reverse" /\ r.txid \in 1..Len(txlog)
    THEN [who |-> txlog[r.txid].toUserId, amount |-> txlog[r.txid].amount]
  ELSE [who |-> NoUser, amount |-> 0]
\* request r asks for more than the account it debits holds
Overdraws(r) ==
  /\ DebitOf(r).who \in DOMAIN users
  /\ users[DebitOf(r).who].balance < DebitOf(r).amount
\* every row of the job debits an account of more than it holds
AllRowsOverdraw(rows) ==
  \A i \in 1..Len(rows) :
    /\ rows[i].fromUserId \in DOMAIN users
    /\ users[rows[i].fromUserId].balance < rows[i].amount

C17_BalancesWithinCeiling ==
  \A u \in DOMAIN users : users[u].balance <= AmountCeiling


\* handler p is on a transfer call of a principal with the given role
TransferBy(p, role) ==
  LET r == IF pc[p] = "idle" THEN req'[p] ELSE req[p] IN
  /\ pc[p] # "idle" \/ pc'[p] # "idle"
  /\ r.op = "transfer"
  /\ users[r.caller].role = role
\* the request handler p is serving during the step
Served(p) == IF pc[p] = "idle" THEN req'[p] ELSE req[p]
\* the step in which handler p gets its answer
Answers(p) == pc[p] # "respond" /\ pc'[p] = "respond"

\* C18: while a transfer call of a player is served no balance changes; the
\* call is refused without effect when its type is not request, and otherwise
\* its answer is either an error without effect or the success that appends
\* exactly one pending entry of type request from the caller; a transfer call
\* of an admin with a type other than manual is refused without effect.
C18_PlayerMovesNothing ==
  [][\A p \in Procs :
       /\ TransferBy(p, "Player") =>
            /\ \A u \in DOMAIN users : users'[u].balance = users[u].balance
            /\ Answers(p) =>
                 IF Served(p).type # "request" \/ resp'[p].code # 200
                 THEN /\ resp'[p].code \notin {0, 200}
                      /\ users' = users /\ txlog' = txlog
                 ELSE /\ users' = users
                      /\ Len(Appended) = 1
                      /\ SubSeq(txlog', 1, Len(txlog)) = txlog
                      /\ Appended[1].status = "pending"
                      /\ Appended[1].type = "request"
                      /\ Appended[1].fromUserId = Served(p).caller
                      /\ Appended[1].toUserId = Served(p).toUserId
                      /\ Appended[1].amount = Served(p).amount
       /\ TransferBy(p, "Admin") /\ Served(p).type # "manual" /\ pc[p] = "idle" =>
            /\ Answers(p) /\ resp'[p].code \notin {0, 200}
            /\ users' = users /\ txlog' = txlog]_vars

\* C18 witness: a player who holds chips has had a request accepted: the log
\* ends with the pending entry from the player and the player still holds
\* the chips.
C18_Witness ==
  /\ pc["h1"] = "respond" /\ resp["h1"].code = 200
  /\ req["h1"].op = "transfer" /\ req["h1"].type = "request"
  /\ users[req["h1"].caller].role = "Player"
  /\ users[req["h1"].caller].balance > 0
  /\ txlog # <<>>
  /\ txlog[Len(txlog)].status = "pending"
  /\ txlog[Len(txlog)].fromUserId = req["h1"].caller


\* handler p takes up a manual transfer call of an admin
TakesManual(p) ==
  /\ pc[p] = "idle" /\ pc'[p] # "idle"
  /\ req'[p].op = "transfer" /\ req'[p].type = "manual"
  /\ users[req'[p].caller].role = "Admin"
\* a manual transfer the code must refuse: an account is missing, the sender
\* is the receiver, or the sender holds less than the amount
MustFail(r) ==
  \/ r.toUserId \notin DOMAIN users
  \/ /\ r.fromUserId # NoUser
     /\ \/ r.fromUserId \notin DOMAIN users
        \/ r.fromUserId = r.toUserId
        \/ users[r.fromUserId].balance < r.amount

\* C19: the commit of an admin manual transfer of amount a with a sender takes
\* exactly a from the sender, gives exactly a to the receiver, touches no
\* other account and appends one approved manual entry from sender to
\* receiver; without a sender only the receiver changes, by +a, and the entry
\* has fromUserId = null. A call with a missing account, with the sender as
\* receiver or with a sender who holds less than a is refused without effect,
\* and any other call of a valid amount goes on to its writes.
C19_ManualTransfer ==
  [][\A p \in Procs :
       /\ Commits(p, "transfer") /\ req[p].type = "manual" =>
            LET f == req[p].fromUserId
                t == req[p].toUserId
                a == req[p].amount IN
            /\ users' = IF f = NoUser
                         THEN [users EXCEPT ![t].balance = @ + a]
                         ELSE [users EXCEPT ![f].balance = @ - a, ![t].balance = @ + a]
            /\ f # t
            /\ SubSeq(txlog', 1, Len(txlog)) = txlog
            /\ Len(Appended) = 1
            /\ Appended[1].fromUserId = f /\ Appended[1].toUserId = t
            /\ Appended[1].amount = a
            /\ Appended[1].type = "manual" /\ Appended[1].status = "approved"
       /\ TakesManual(p) =>
            IF MustFail(req'[p])
            THEN /\ pc'[p] = "respond" /\ resp'[p].code \notin {0, 200}
                 /\ users' = users /\ txlog' = txlog
            ELSE AmountValid(req'[p].amount) => pc'[p] = "write"]_vars

\* C19 witness: a manual transfer from p1 to p2 has been answered with
\* success; its entry ends the log and p2 holds at least its amount.
C19_Witness ==
  /\ pc["h1"] = "respond" /\ resp["h1"].code = 200
  /\ req["h1"].op = "transfer" /\ req["h1"].type = "manual"
  /\ req["h1"].fromUserId = "p1" /\ req["h1"].toUserId = "p2"
  /\ txlog # <<>>
  /\ txlog[Len(txlog)].fromUserId = "p1" /\ txlog[Len(txlog)].toUserId = "p2"
  /\ txlog[Len(txlog)].type = "manual" /\ txlog[Len(txlog)].status = "approved"
  /\ users["p2"].balance >= req["h1"].amount


\* entry i of the log is a request still pending
PendingRequest(i) ==
  /\ i \in 1..Len(txlog)
  /\ txlog[i].type = "request" /\ txlog[i].status = "pending"
\* the sender of request i holds its amount
Funded(i) == users[txlog[i].fromUserId].balance >= txlog[i].amount

\* C20: an approveRequest on a pending request whose sender holds less than
\* its amount is refused and changes nothing, so the entry stays pending;
\* on any pending request an approveRequest goes on to its writes as soon as
\* the sender holds the amount and commits it as approved, and a
\* rejectRequest goes on to its writes whatever the sender holds.
C20_ApprovalChecksBalance ==
  [][\A p \in Procs :
       /\ TakesUp(p, "approve") /\ PendingRequest(req'[p].txid) =>
            IF Funded(req'[p].txid)
            THEN pc'[p] = "write"
            ELSE /\ pc'[p] = "respond" /\ resp'[p].code = 400
                 /\ users' = users /\ txlog' = txlog
                 /\ txlog'[req'[p].txid].status = "pending"
       /\ Commits(p, "approve") =>
            /\ PendingRequest(req[p].txid) /\ Funded(req[p].txid)
            /\ txlog'[req[p].txid].status = "approved"
       /\ TakesUp(p, "reject") /\ PendingRequest(req'[p].txid) => pc'[p] = "write"]_vars

\* C20 witness: an approveRequest has been refused for a pending request
\* whose sender holds less than its amount; the entry is still pending.
C20_Witness ==
  /\ pc["h1"] = "respond" /\ req["h1"].op = "approve" /\ resp["h1"].code = 400
  /\ PendingRequest(req["h1"].txid)
  /\ ~Funded(req["h1"].txid)


\* C21: the one step that commits an approveRequest on a pending request of
\* amount a takes exactly a from the request's sender, gives exactly a to its
\* receiver, touches no other account, and changes the log only in that entry,
\* which becomes approved and carries the acting admin; no entry is appended.
C21_ApprovalMovesAmount ==
  [][\A p \in Procs : Commits(p, "approve") =>
       LET id == req[p].txid
           e == txlog[id] IN
       /\ PendingRequest(id)
       /\ users' = [users EXCEPT ![e.fromUserId].balance = @ - e.amount,
                                 ![e.toUserId].balance = @ + e.amount]
       /\ e.fromUserId # e.toUserId
       /\ txlog' = [txlog EXCEPT ![id] = [e EXCEPT !.status = "approved",
                                                   !.adminId = req[p].caller]]
       /\ users[req[p].caller].role = "Admin"]_vars

\* C21 witness: an approveRequest has been answered with success: the entry
\* is approved and stamped with the admin, and its receiver holds the amount.
C21_Witness ==
  /\ pc["h1"] = "respond" /\ req["h1"].op = "approve" /\ resp["h1"].code = 200
  /\ txlog[req["h1"].txid].type = "request"
  /\ txlog[req["h1"].txid].status = "approved"
  /\ txlog[req["h1"].txid].adminId = req["h1"].caller
  /\ users[txlog[req["h1"].txid].toUserId].balance >= txlog[req["h1"].txid].amount


\* C22: the step that commits a rejectRequest on a pending request changes no
\* account and keeps the length of the log; only that entry changes: its
\* status becomes failed, its parties, amount and type are kept, and its
\* reason is kept when none is given and otherwise is the old reason, whole
\* and in front, followed by the rejection reason.
C22_RejectKeepsBalances ==
  [][\A p \in Procs : Commits(p, "reject") =>
       LET id == req[p].txid
           old == txlog[id].reason
           new == txlog'[id].reason
           given == req[p].reason IN
       /\ PendingRequest(id)
       /\ users' = users
       /\ Len(txlog') = Len(txlog)
       /\ \A i \in 1..Len(txlog) : i # id => txlog'[i] = txlog[i]
       /\ txlog'[id] = [txlog[id] EXCEPT !.status = "failed",
                                         !.adminId = txlog'[id].adminId,
                                         !.reason = new]
       /\ IF given = <<>> THEN new = old
          ELSE /\ Len(new) >= Len(old) + Len(given)
               /\ SubSeq(new, 1, Len(old)) = old
               /\ SubSeq(new, Len(new) - Len(given) + 1, Len(new)) = given]_vars

\* C22 witness: a request made with a reason has been rejected with a reason:
\* the entry is failed and holds both reasons, nobody holds chips.
C22_Witness ==
  /\ pc["h1"] = "respond" /\ req["h1"].op = "reject" /\ resp["h1"].code = 200
  /\ req["h1"].reason # <<>>
  /\ txlog[req["h1"].txid].status = "failed"
  /\ Len(txlog[req["h1"].txid].reason) > 1 + Len(req["h1"].reason)
  /\ txlog[req["h1"].txid].reason[1] = "r"


\* entry i of the log can be reversed as far as the entry itself goes: it is
\* approved, is no reversal, and has a sender and a receiver
Reversible(i) ==
  /\ i \in 1..Len(txlog)
  /\ txlog[i].status = "approved" /\ txlog[i].type # "reversal"
  /\ txlog[i].fromUserId # NoUser /\ txlog[i].toUserId # NoUser

\* C23: a reverseTransaction on a reversible entry whose receiver now holds
\* less than the entry's amount is refused: no balance changes, nothing is
\* appended and the entry stays approved; when the receiver holds the amount
\* the reversal goes on to its writes.
C23_ReversalChecksFunds ==
  [][\A p \in Procs :
       TakesUp(p, "reverse") /\ Reversible(req'[p].txid) =>
         LET e == txlog[req'[p].txid] IN
         IF users[e.toUserId].balance < e.amount
         THEN /\ pc'[p] = "respond" /\ resp'[p].code = 400
              /\ users' = users /\ txlog' = txlog
              /\ txlog'[req'[p].txid].status = "approved"
         ELSE pc'[p] = "write"]_vars

\* C23 witness: the reversal of a transfer has been refused; the receiver has
\* since sent chips on (a later approved entry leaves the receiver) and holds
\* less than the transfer's amount, and the transfer is still approved.
C23_Witness ==
  /\ pc["h1"] = "respond" /\ req["h1"].op = "reverse" /\ resp["h1"].code = 400
  /\ Reversible(req["h1"].txid)
  /\ LET e == txlog[req["h1"].txid] IN
     /\ users[e.toUserId].balance < e.amount
     /\ \E j \in (req["h1"].txid + 1)..Len(txlog) :
          txlog[j].fromUserId = e.toUserId /\ txlog[j].status = "approved"


\* C24: every entry of type reversal has isReversal set and refers to an entry
\* whose status is reversed, and every entry whose status is reversed refers
\* to the reversal entry that undid it.
C24_ReversalsLinked ==
  \A i \in 1..Len(txlog) :
    /\ txlog[i].type = "reversal" =>
         /\ txlog[i].isReversal
         /\ txlog[i].reversedTransactionId \in 1..Len(txlog)
         /\ txlog[txlog[i].reversedTransactionId].status = "reversed"
    /\ txlog[i].status = "reversed" =>
         /\ txlog[i].reversedTransactionId \in 1..Len(txlog)
         /\ txlog[txlog[i].reversedTransactionId].type = "reversal"
         /\ txlog[txlog[i].reversedTransactionId].reversedTransactionId = i


\* the operations whose commit changes balances
BalanceOps == {"transfer", "approve", "reverse", "mint", "recover"}

\* C25: when a handler returns the success answer of an operation that
\* changed balances, no account it saved has an entry in the balance cache,
\* and when the worker returns the result of a job, no account whose balance
\* the job changed, sender or receiver, has one.
C25_CacheInvalidated ==
  [][/\ \A p \in Procs :
          /\ pc[p] = "respond" /\ pc'[p] = "idle"
          /\ plan[p].code = 200 /\ req[p].op \in BalanceOps
          => \A u \in DOMAIN plan[p].uw : balanceCache'[u] = NotCached
     /\ JobCommits =>
          \A u \in DOMAIN users :
            users'[u].balance # users[u].balance => balanceCache'[u] = NotCached]_vars


\* no handler and no worker session is in progress
Quiet == (\A p \in Procs : pc[p] = "idle") /\ wpc = "idle"

\* C26: a getBalance of a player that starts when every balance change has
\* committed and finished its invalidation, and that is answered from the
\* cache, returns the balance the store holds.
C26_CacheNeverStale ==
  [][reader.pc = "idle" /\ reader'.pc = "done" /\ Quiet =>
       reader'.val = users[reader'.user].balance]_vars


\* the step in which the guard, its lookups having answered, is done with the
\* keyed request of handler p (a lookup that throws drops the key)
GuardDecides(p) == pc[p] = "idle" /\ pc'[p] # "idle" /\ req'[p].key # NoKey

\* C27: the guard never answers a keyed request with an error of its own.
\* It answers 409 only for a key the cache holds; whenever the fast path
\* reports nothing, be the key absent or the cache not ready, a key that an
\* entry of the log carries is answered with 200 and that entry, nothing
\* being written, and a key that no entry carries goes to the handler with
\* the key attached.
C27_GuardWithoutCache ==
  [][\A p \in Procs : GuardDecides(p) =>
       LET k == req'[p].key IN
       /\ resp'[p].code = 409 => k \in idemCache /\ pc'[p] = "respond"
       /\ resp'[p].code # 409 =>
            IF WithKey(k) # {}
            THEN /\ pc'[p] = "respond" /\ resp'[p].code = 200
                 /\ resp'[p].tx \in WithKey(k)
                 /\ users' = users /\ txlog' = txlog
            ELSE pc'[p] = "handler" /\ resp'[p] = NoResp]_vars

\* C27 witness: both clients have been handed the committed entry by the
\* guard and the key is in the cache for neither: it could not be stored.
C27_Witness ==
  /\ \A p \in Procs :
       /\ pc[p] = "respond" /\ plan[p] = NoPlan
       /\ resp[p].code = 200 /\ WithKey(req[p].key) = {resp[p].tx}
  /\ idemCache = {}


\* C28: once an operation has committed and its success answer is due, no
\* step changes balances or log (the committed effect stays) and the answer
\* the caller is about to receive stays the success answer.
C28_PublishFailureHarmless ==
  [][\A p \in Procs :
       pc[p] = "respond" /\ plan[p].code = 200 /\ pc'[p] = "respond" =>
         users' = users /\ txlog' = txlog /\ resp'[p] = resp[p]]_vars


\* C29: no Admin account is ever banned; a ban request that names an Admin
\* is answered with a failure and changes no account; and the only step that
\* sets isBanned on an account is the commit of a ban of that account.
C29_AdminNeverBanned ==
  /\ [](\A u \in Users : ~(users[u].role = "Admin" /\ users[u].isBanned))
  /\ [][\A p \in Procs :
          /\ (req'[p].op = "ban" /\ req'[p].toUserId \in Users
                /\ users[req'[p].toUserId].role = "Admin"
                /\ (pc[p] # pc'[p] \/ req[p] # req'[p])) =>
               /\ users' = users
               /\ pc'[p] \in {"respond", "idle"}
               /\ pc'[p] = "respond" => resp'[p].code \notin {0, 200}
          /\ \A u \in Users : ~users[u].isBanned /\ users'[u].isBanned =>
               \E q \in Procs : Commits(q, "ban") /\ req[q].toUserId = u]_vars

\* C29 witness: a ban of the Admin has just been refused, while a player is
\* banned.
C29_Witness ==
  /\ pc["h1"] = "respond" /\ req["h1"].op = "ban"
  /\ req["h1"].toUserId = "adm" /\ users["adm"].role = "Admin"
  /\ resp["h1"].code = 403
  /\ \E u \in Users : users[u].isBanned


AccountOps == {"ban", "unban", "verify"}
\* a step taken by handler p
StepOf(p) ==
  pc'[p] # pc[p] \/ req'[p] # req[p] \/ plan'[p] # plan[p] \/ resp'[p] # resp[p]

\* C30: no step of a ban, an unban or a verification, refused or not, changes
\* the balance of any account or the log; a ban whose reason is empty or
\* blank is answered with a failure as soon as it is taken up, and no step of
\* it changes any account.
C30_AccountOpsLeaveLedger ==
  [][\A p \in Procs :
       /\ StepOf(p) /\ (req[p].op \in AccountOps \/ req'[p].op \in AccountOps) =>
            /\ txlog' = txlog
            /\ \A u \in Users : users'[u].balance = users[u].balance
       /\ StepOf(p) /\ req'[p].op = "ban" /\ BlankReason(req'[p].reason) =>
            /\ users' = users
            /\ pc'[p] = "respond" /\ resp'[p].code \notin {0, 200}
       /\ StepOf(p) /\ req[p].op = "ban" /\ BlankReason(req[p].reason) =>
            users' = users]_vars

\* C30 witness: a player holding chips has been banned and verified, and a
\* ban of the other player with a blank reason has just been refused.
C30_Witness ==
  /\ users["p1"].isBanned /\ users["p1"].isVerified /\ users["p1"].balance > 0
  /\ Len(txlog) > 0
  /\ pc["h1"] = "respond" /\ req["h1"].op = "ban" /\ req["h1"].reason = <<" ">>
  /\ req["h1"].toUserId = "p2" /\ ~users["p2"].isBanned
  /\ resp["h1"].code = 400


\* a job is waiting or in progress
JobPending == queue # <<>> \/ job # NoJob
\* the job of batch b is waiting or in progress
JobInHand(b) == job.batchId = b \/ \E i \in 1..Len(queue) : queue[i].batchId = b
BatchIds == 1..MaxLog   \* a job holds room in the log for its rows
\* the step in which an attempt of the job in progress fails
AttemptFails == wpc = "write" /\ wpc' = "idle"

\* C31: a job never has more than the configured attempts behind it; an
\* attempt that fails writes no balance and no entry, and puts the job back
\* on the queue with one more attempt made, or, when it was the last one,
\* reports the job failed; a job leaves the worker only completed or failed;
\* and every job waiting or in progress eventually has left, that is, has
\* completed or has been reported failed.
C31_JobsEndCompletedOrFailed ==
  /\ [](/\ job.attemptsMade < JobAttempts
        /\ \A i \in 1..Len(queue) : queue[i].attemptsMade < JobAttempts)
  /\ [][/\ AttemptFails =>
             /\ users' = users /\ txlog' = txlog
             /\ IF job.attemptsMade + 1 < JobAttempts
                THEN /\ queue' = Append(queue, [job EXCEPT !.attemptsMade = @ + 1])
                     /\ jobResult' = jobResult
                ELSE queue' = queue /\ jobResult'.status = "failed"
        /\ (job # NoJob /\ job' = NoJob /\ ~AttemptFails) =>
             jobResult'.status = "completed"]_vars
  /\ \A b \in BatchIds : JobInHand(b) ~> ~JobInHand(b)

\* C31 witness: a job has been reported failed, nothing of it in the log.
C31_Witness ==
  /\ jobResult.status = "failed"
  /\ \A i \in 1..Len(txlog) : txlog[i].batchId = 0
  /\ ~JobPending

\* C32: the stored result of a credit is exactly the decimal b + a, of a debit
\* exactly the decimal b - a, and the comparison of a balance with an amount
\* says b >= a exactly when that is so.
C32_ArithmeticExact ==
  /\ calc.op = "credit" => calc.out = ToDouble(calc.b + calc.a)
  /\ calc.op = "debit" => calc.out = ToDouble(calc.b - calc.a)
  /\ calc.op = "compare" => (calc.out >= 0 <=> calc.b >= calc.a)



\* the admin's manual transfer with the from, to and amount of a bulk row
ManualOfRow(row) ==
  Req("transfer", "adm", row.fromUserId, row.toUserId, row.amount, "manual",
      NoKey, 0, <<>>)
\* the entries of a plan, their batch id left out
SansBatch(ins) == [i \in 1..Len(ins) |-> [ins[i] EXCEPT !.batchId = 0]]

\* C33: when the worker takes up a job of one row, the row is accepted exactly
\* when the manual transfer with the same from, to and amount would be
\* accepted on the same store; accepted, it writes the same balances and
\* inserts the same entry, the batch id apart; rejected, it writes nothing; a
\* row whose from is its to is rejected.
C33_RowAsManualTransfer ==
  [][(wpc = "idle" /\ wpc' = "write" /\ Len(job'.rows) = 1) =>
       LET row == job'.rows[1]
           m == PlanTransferManual(Db, ManualOfRow(row))
       IN  /\ wplan'.success = 1 <=> m.code = 200
           /\ wplan'.success = 1 =>
                wplan'.uw = m.uw /\ SansBatch(wplan'.ins) = SansBatch(m.ins)
           /\ wplan'.success = 0 => wplan'.uw = NoWrites /\ wplan'.ins = <<>>
           /\ row.fromUserId = row.toUserId => wplan'.success = 0]_vars



\* what the entries ins add to the balance of u
NetOf(ins, u) == ApprovedTo(ins, u, Len(ins)) - ApprovedFrom(ins, u, Len(ins))

Committed(p) == pc[p] = "respond" /\ plan[p].code = 200
\* handler p is past the commit of a guarded operation that carries a key
CommittedWithKey(p) ==
  Committed(p) /\ req[p].op \in Guarded /\ req[p].key # NoKey

\* C35: the effects of a ledger operation come in the order commit, key
\* recorded in the cache, balance cache invalidated, notifications, response:
\* a key enters the cache and a cached balance is dropped only in the step
\* that follows the commit of an operation (or when the guard replays a
\* committed entry), and the step that follows the commit of an operation
\* carrying a key is one that can record the key.
C35_EffectsFollowCommit ==
  /\ \A p \in Procs : CommittedWithKey(p) =>
       ENABLED (Finish(p) /\ req[p].key \in idemCache')
  /\ \A k \in Keys : k \in idemCache =>
       \E i \in 1..Len(txlog) : txlog[i].idempotencyKey = k



\* the entry the request of handler p is about
EntryOf(p) == txlog[req[p].txid]
\* handlers p and q are past their handling of the same entry, p with a
\* committed op, q (an op among ops) refused by the write conflict
RaceLost(p, op, q, ops) ==
  /\ p # q /\ Committed(p) /\ req[p].op = op
  /\ pc[q] = "respond" /\ req[q].op \in ops /\ req[q].txid = req[p].txid
  /\ resp[q].code = 500

\* C36: when two admins act on the same pending request at once, its amount
\* moves from sender to receiver at most once, and it has moved exactly when
\* the entry is approved: an approval commits only on an entry that is still
\* pending, moves the amount and leaves the entry approved; a rejection
\* commits only on an entry that is still pending, moves nothing and leaves
\* it failed; no other step settles a request, and a settled request is never
\* pending, approved or failed again by another settlement.
C36_RequestSettledOnce ==
  [][/\ \A p \in Procs : Commits(p, "approve") =>
          /\ EntryOf(p).status = "pending"
          /\ EntryOf(p)'.status = "approved"
          /\ users'[EntryOf(p).fromUserId].balance
               = users[EntryOf(p).fromUserId].balance - EntryOf(p).amount
          /\ users'[EntryOf(p).toUserId].balance
               = users[EntryOf(p).toUserId].balance + EntryOf(p).amount
     /\ \A p \in Procs : Commits(p, "reject") =>
          /\ EntryOf(p).status = "pending"
          /\ EntryOf(p)'.status = "failed"
          /\ users' = users
     /\ \A i \in 1..Len(txlog) :
          txlog[i].type = "request" /\ txlog'[i].status # txlog[i].status =>
            \/ \E p \in Procs : req[p].txid = i
                 /\ (Commits(p, "approve") \/ Commits(p, "reject"))
            \/ \E p \in Procs : req[p].txid = i /\ Commits(p, "reverse")
                 /\ txlog[i].status = "approved" /\ txlog'[i].status = "reversed"
    ]_vars

\* C36 witness: one admin's approval of a request has committed and moved the
\* chip to p2 while the other admin's approval or rejection of the same
\* request failed on the write conflict.
C36_Witness ==
  \E p, q \in Procs :
    /\ RaceLost(p, "approve", q, {"approve", "reject"})
    /\ EntryOf(p).type = "request" /\ EntryOf(p).status = "approved"
    /\ users[EntryOf(p).toUserId].balance = EntryOf(p).amount
    /\ users[EntryOf(p).fromUserId].balance = 0



\* the reversal entries that refer to entry i
ReversalsOf(i) ==
  {j \in 1..Len(txlog) : txlog[j].type = "reversal" /\ txlog[j].reversedTransactionId = i}

\* C37: at most one reversal entry refers to any original, also when two
\* reversals of the same original run at once, and the original's amount is
\* moved back at most once: a reversal commits only on an original that is
\* still approved and has no reversal, moves the amount from receiver to
\* sender and leaves the original reversed, and a reversed original stays so.
C37_OneReversal ==
  /\ [](\A i \in 1..Len(txlog) : Cardinality(ReversalsOf(i)) <= 1)
  /\ [][/\ \A p \in Procs : Commits(p, "reverse") =>
             /\ EntryOf(p).status = "approved"
             /\ ReversalsOf(req[p].txid) = {}
             /\ EntryOf(p)'.status = "reversed"
             /\ users'[EntryOf(p).toUserId].balance
                  = users[EntryOf(p).toUserId].balance - EntryOf(p).amount
             /\ users'[EntryOf(p).fromUserId].balance
                  = users[EntryOf(p).fromUserId].balance + EntryOf(p).amount
        /\ \A i \in 1..Len(txlog) :
             txlog[i].status = "reversed" => txlog'[i].status = "reversed"
       ]_vars

\* C37 witness: one admin's reversal of a transfer has committed, the other
\* admin's reversal of the same transfer failed on the write conflict, and the
\* log holds the one reversal entry.
C37_Witness ==
  \E p, q \in Procs :
    /\ RaceLost(p, "reverse", q, {"reverse"})
    /\ EntryOf(p).status = "reversed"
    /\ Cardinality(ReversalsOf(req[p].txid)) = 1



\* the sum of all account balances
TotalBalance(us) ==
  LET S[xs \in SUBSET Users] ==
        IF xs = {} THEN 0
        ELSE LET x == CHOOSE y \in xs : TRUE IN us[x].balance + S[xs \ {x}]
  IN S[Users]
\* the amounts of the approved entries without sender among log[i..Len(log)]
RECURSIVE MintedFrom(_, _)
MintedFrom(log, i) ==
  IF i > Len(log) THEN 0
  ELSE (IF log[i].fromUserId = NoUser /\ log[i].status = "approved"
        THEN log[i].amount ELSE 0) + MintedFrom(log, i + 1)

\* C38: conservation. Every step leaves the sum of all balances unchanged but
\* for the mint-type credits it commits (entries without sender: manual mint,
\* daily mint, bulk row without from), which raise it by exactly their
\* amounts; an operation with a sender and a receiver leaves the sum
\* unchanged, and nothing lowers it.
C38_Conservation ==
  [][TotalBalance(users') = TotalBalance(users) + MintedFrom(txlog', Len(txlog) + 1)]_vars



\* entry i is a mint-type credit: approved, without sender
Minted(i) == txlog[i].status = "approved" /\ txlog[i].fromUserId = NoUser

\* C39: a reverseTransaction on an approved entry without sender (manual
\* mint, daily mint, bulk credit) is refused and changes neither balances nor
\* log; an entry without sender is never reversed and no reversal entry
\* refers to one.
C39_MintsNotReversed ==
  /\ [][\A p \in Procs :
          TakesUp(p, "reverse") /\ Minted(req'[p].txid) =>
            Refuses(p) /\ resp'[p].code = 400]_vars
  /\ [](\A i \in 1..Len(txlog) :
          txlog[i].fromUserId = NoUser /\ txlog[i].type # "reversal" =>
            txlog[i].status # "reversed" /\ ReversalsOf(i) = {})

\* C39 witness: the reversal of a credit without sender whose receiver still
\* holds the amount has been refused.
C39_Witness ==
  /\ pc["h1"] = "respond" /\ req["h1"].op = "reverse" /\ resp["h1"].code = 400
  /\ req["h1"].txid \in 1..Len(txlog) /\ Minted(req["h1"].txid)
  /\ users[EntryOf("h1").toUserId].balance >= EntryOf("h1").amount



\* the request handler p serves is one of the keyed requests of SpecKeyed, as
\* the handler sees it (with or without the key the client sent)
SentWithKey(p) ==
  \E r \in KeyedReqs : [r EXCEPT !.key = NoKey] = [req[p] EXCEPT !.key = NoKey]

\* C40: every entry committed by a transfer or recoverChips request that was
\* sent with an idempotency key carries that key, whatever happened in the
\* guard, and no earlier entry carries it: a retry with the key never commits
\* a second entry.
C40_KeyStored ==
  [][\A p \in Procs :
       pc[p] = "commit" /\ pc'[p] = "respond" /\ SentWithKey(p) =>
         /\ Len(txlog') = Len(txlog) + 1
         /\ txlog'[Len(txlog')].idempotencyKey \in Keys
         /\ WithKey(txlog'[Len(txlog')].idempotencyKey) = {}]_vars

====
